---- MODULE Spec2Model ----
(***************************************************************************)
(* Anomaly detection engine of the electric-vehicle CAN telemetry          *)
(* subscriber (src/mö+db_deneme/anomaly_detector.py): per-vehicle state,   *)
(* the temporal / geography / signal rule families and the Isolation       *)
(* Forest lifecycle (collect, train, save, predict).                       *)
(*                                                                         *)
(* One action models one whole call of update_vehicle_state, exceptions    *)
(* included; Restart models a new process constructing AnomalyDetector     *)
(* over the model files the previous process left on disk.                 *)
(***************************************************************************)
EXTENDS Integers, Sequences, FiniteSets, TLC

VARIABLES
    vehicle_states,     \* self.vehicle_states: vehicle_id -> VehicleState
    collected_data,     \* self.collected_data: defaultdict(list), keyed by message name
    training_progress,  \* self.training_progress
    isolation_forests,  \* self.isolation_forests: message type -> model object
    is_model_trained,   \* self.is_model_trained
    artifacts,          \* the files trained_models/*.joblib on disk, per message type
    now,                \* time.time(), a logical clock
    found,              \* message types whose artifact existed when this process started
    loaded,             \* message types whose artifact was loaded by this process's __init__
    train_passes,       \* training passes executed by this process
    restarts,           \* processes started after the first one
    delivered,          \* (vehicle, message name) -> signals of the last message passed to this process's detector
    threads,            \* per thread inside update_vehicle_state: its position and its local variables
    inbox,              \* messages received by the MQTT client that on_message has not been called for yet
    current_vehicle_index,  \* the subscriber's round-robin position in VEHICLE_IDS
    saved,              \* rows on_message appended to the CSV file and points it wrote to InfluxDB
    call                \* what the last update_vehicle_state call did (observation only)

vars == <<vehicle_states, collected_data, training_progress, isolation_forests,
          is_model_trained, artifacts, now, found, loaded, train_passes, restarts,
          delivered, threads, inbox, current_vehicle_index, saved, call>>

----------------------------------------------------------------------------
(* Bounds of the model *)

\* min_samples_for_training is 500 in the source; the model trains after this many
MinSamples == 2
\* messages handled over all processes of a run of the model
MaxMsgs == 6
\* process restarts in a run of the model
MaxRestarts == 1
\* messages handled in a run of the rule-evaluation specification
MaxRuleMsgs == 2
\* messages handled in a run of the unreliable-sink specification
MaxSinkMsgs == 3
\* messages handled in a run of the boundary-input specification
MaxBoundaryMsgs == 3
\* messages handled in a run of the temporal-rule specification
MaxTemporalMsgs == 2
\* messages of each type in a run of the fair-delivery specification
MaxTypeMsgs == 3
\* calls of update_vehicle_state in a run of the interleaved specifications
MaxConcCalls == 3
\* messages waiting for on_message in a run of the network-loop specification
MaxInbox == 2
\* highest battery level (%) of the snapshots of the signal-rule specification
MaxBatteryLevel == 40
\* highest speed (km/h) of the snapshots of the signal-rule specification
MaxSpeed == 160

----------------------------------------------------------------------------
(* Data model *)

MessageTypes == <<"EngineData", "VehicleData", "ClimateControl">>

MsgTypes == {MessageTypes[i] : i \in 1..Len(MessageTypes)}

Geography == {"rainy", "mountainous", "urban", "highway", "hot", "snowy"}

VEHICLE_IDS == <<"VHC_01", "VHC_02", "VHC_03", "VHC_04", "VHC_05">>

\* the vehicles of the runs that draw the vehicle of each message freely
Vehicles == {VEHICLE_IDS[1], VEHICLE_IDS[2]}

Abs(x) == IF x < 0 THEN -x ELSE x

\* dict.get(key, default)
Get(signals, key, default) == IF key \in DOMAIN signals THEN signals[key] ELSE default

Has(signals, key) == key \in DOMAIN signals

\* The three signals each message type carries, in feature order.
Features(message_name) ==
    CASE message_name = "EngineData" -> <<"EngineSpeed", "EngineTemp", "BatteryLevel">>
      [] message_name = "VehicleData" -> <<"Speed", "GearPosition", "BatteryVoltage">>
      [] message_name = "ClimateControl" -> <<"CabinTemp", "FanSpeed", "ACStatus">>
      [] OTHER -> <<>>

\* _prepare_data_for_isolation_forest: the row of the 1x3 array, <<>> for an unknown name
PrepareData(message_name, signals) ==
    [i \in 1..Len(Features(message_name)) |-> Get(signals, Features(message_name)[i], 0)]

\* A model object: a fresh IsolationForest is not fitted; fit records its training rows.
NewModel == [fitted |-> FALSE, rows |-> <<>>]

Fit(data) == [fitted |-> TRUE, rows |-> data]

\* A model file on disk: whether the path exists, whether joblib.load can read
\* it, and the model object it holds.
File(model) == [exists |-> TRUE, readable |-> TRUE, model |-> model]

\* A model file left by an earlier training run on two samples.
PriorModel == File(Fit(<<<<0, 0, 0>>, <<0, 0, 0>>>>))

\* An existing but unreadable model file: joblib.load raises on it.
Corrupt == [exists |-> TRUE, readable |-> FALSE, model |-> NewModel]

Absent == [exists |-> FALSE, readable |-> FALSE, model |-> NewModel]

\* os.path.exists(model_path)
Exists(disk, t) == disk[t].exists

----------------------------------------------------------------------------
(* Results of a rule family: sink writes w, printed diagnostics d, and the  *)
(* exception that ended it (err), "none" when it returned.                  *)

Ok(w, d) == [w |-> w, d |-> d, err |-> "none"]

Raise(e) == [w |-> <<>>, d |-> <<>>, err |-> e]

\* b runs after a, unless a raised
Then(a, b) ==
    IF a.err # "none" THEN a
    ELSE [w |-> a.w \o b.w, d |-> a.d \o b.d, err |-> b.err]

\* a rule that saves its anomaly a second time
WriteIfRetried(cond, anomaly_type, signals, key) ==
    IF ~cond THEN Ok(<<>>, <<>>)
    ELSE IF key # "" /\ ~Has(signals, key) THEN Raise("KeyError")
    ELSE Ok(<<anomaly_type, anomaly_type>>, <<>>)

\* a rule that writes anomaly_type to the sink when cond holds; its details
\* f-string reads signals[key] before the write
WriteIf(cond, anomaly_type, signals, key) ==
    IF ~cond THEN Ok(<<>>, <<>>)
    ELSE IF key # "" /\ ~Has(signals, key) THEN Raise("KeyError")
    ELSE Ok(<<anomaly_type>>, <<>>)

\* a check that also saves what it prints as an anomaly
PrintIfSaved(cond, tag) == IF cond THEN Ok(<<tag>>, <<tag>>) ELSE Ok(<<>>, <<>>)

\* a check that only prints
PrintIf(cond, tag) == IF cond THEN Ok(<<>>, <<tag>>) ELSE Ok(<<>>, <<>>)

----------------------------------------------------------------------------
(* Rule evaluator *)

\* _get_expected_gear with the upper limit of each step excluded
GetExpectedGearExclusive(speed) ==
    IF speed = 0 THEN 1
    ELSE IF speed < 20 THEN 1
    ELSE IF speed < 40 THEN 2
    ELSE IF speed < 70 THEN 3
    ELSE IF speed < 100 THEN 4
    ELSE IF speed < 150 THEN 5
    ELSE 6

\* get_appropriate_gear of src/mö+db_deneme/publisher.py
GetAppropriateGear(speed) ==
    IF speed = 0 THEN 1
    ELSE IF speed <= 20 THEN 1
    ELSE IF speed <= 40 THEN 2
    ELSE IF speed <= 70 THEN 3
    ELSE IF speed <= 100 THEN 4
    ELSE IF speed <= 150 THEN 5
    ELSE 6

\* get_appropriate_gear of src/publisher.py
GetAppropriateGearOfSrcPublisher(speed) ==
    IF speed = 0 THEN 1
    ELSE IF speed <= 20 THEN 1
    ELSE IF speed <= 40 THEN 2
    ELSE IF speed <= 70 THEN 3
    ELSE IF speed <= 100 THEN 4
    ELSE IF speed <= 150 THEN 5
    ELSE 6

\* _get_expected_gear
GetExpectedGear(speed) ==
    IF speed = 0 THEN 1
    ELSE IF speed <= 20 THEN 1
    ELSE IF speed <= 40 THEN 2
    ELSE IF speed <= 70 THEN 3
    ELSE IF speed <= 100 THEN 4
    ELSE IF speed <= 150 THEN 5
    ELSE 6

\* the branch of _check_geography_based_anomalies for Geography.URBAN
\* with the limit of the method's docstring (>50) instead of the code's (>60)
UrbanRulesDocstring(message_name, signals) ==
    Then(WriteIf(message_name = "VehicleData" /\ Get(signals, "Speed", 0) > 50,
                 "high_speed_in_urban", signals, "Speed"),
         WriteIf(message_name = "EngineData" /\ Get(signals, "EngineSpeed", 0) > 4000,
                 "high_engine_speed", signals, "EngineSpeed"))

\* the branch of _check_geography_based_anomalies for Geography.URBAN
UrbanRules(message_name, signals) ==
    Then(WriteIf(message_name = "VehicleData" /\ Get(signals, "Speed", 0) > 60,
                 "high_speed_in_urban", signals, "Speed"),
         WriteIf(message_name = "EngineData" /\ Get(signals, "EngineSpeed", 0) > 4000,
                 "high_engine_speed", signals, "EngineSpeed"))

\* _check_geography_based_anomalies(state, message_name, signals), state.geography = geography
CheckGeographyBasedAnomalies(geography, message_name, signals) ==
    CASE geography = "rainy" ->
           WriteIf(message_name = "VehicleData" /\ Get(signals, "Speed", 0) > 70,
                   "high_speed_in_rain", signals, "Speed")
      [] geography = "mountainous" ->
           Then(WriteIf(message_name = "EngineData" /\ Get(signals, "EngineTemp", 0) > 95,
                        "high_temperature_in_mountainous", signals, "EngineTemp"),
                WriteIf(message_name = "VehicleData" /\ Get(signals, "Speed", 0) > 70,
                        "high_speed_in_mountainous", signals, "Speed"))
      [] geography = "hot" ->
           Then(WriteIf(message_name = "EngineData" /\ Get(signals, "EngineTemp", 0) > 100,
                        "high_temperature_in_hot", signals, "EngineTemp"),
                IF message_name = "ClimateControl"
                THEN Then(WriteIf(Get(signals, "CabinTemp", 20) > 28,
                                  "high_cabin_temperature", signals, "CabinTemp"),
                          WriteIf(Get(signals, "ACStatus", 1) = 0,
                                  "ac_off_in_hot", signals, ""))
                ELSE Ok(<<>>, <<>>))
      [] geography = "snowy" ->
           Then(WriteIf(message_name = "VehicleData" /\ Get(signals, "Speed", 0) > 50,
                        "high_speed_in_snow", signals, "Speed"),
                WriteIf(message_name = "ClimateControl" /\ Get(signals, "CabinTemp", 20) < 18,
                        "low_cabin_temperature", signals, "CabinTemp"))
      [] geography = "urban" -> UrbanRules(message_name, signals)
      [] geography = "highway" ->
           WriteIf(message_name = "VehicleData" /\ Get(signals, "Speed", 0) < 60,
                   "low_speed_in_highway", signals, "Speed")
      [] OTHER -> Ok(<<>>, <<>>)

\* the difference without abs()
SignedDelta(signals, last_signals, key) == signals[key] - last_signals[key]

\* abs(signals[key] - last_signals[key]), a KeyError when either lacks the key
Delta(signals, last_signals, key) == Abs(signals[key] - last_signals[key])

BothHave(signals, last_signals, key) == Has(signals, key) /\ Has(last_signals, key)

\* _check_temporal_anomalies(state, message_name, signals), last_signals = state.last_values[message_name]
CheckTemporalAnomalies(last_signals, message_name, signals) ==
    CASE message_name = "VehicleData" ->
           IF ~BothHave(signals, last_signals, "Speed") THEN Raise("KeyError")
           ELSE Then(WriteIf(Delta(signals, last_signals, "Speed") > 20,
                             "sudden_speed_change", signals, ""),
                     IF ~BothHave(signals, last_signals, "GearPosition") THEN Raise("KeyError")
                     ELSE PrintIf(Delta(signals, last_signals, "GearPosition") > 1, "gear_jump"))
      [] message_name = "EngineData" ->
           IF ~BothHave(signals, last_signals, "EngineTemp") THEN Raise("KeyError")
           ELSE Then(WriteIf(Delta(signals, last_signals, "EngineTemp") > 15,
                             "sudden_temperature_change", signals, ""),
                Then(IF ~BothHave(signals, last_signals, "EngineSpeed") THEN Raise("KeyError")
                     ELSE PrintIf(Delta(signals, last_signals, "EngineSpeed") > 2000,
                                  "engine_speed_delta"),
                     IF ~BothHave(signals, last_signals, "BatteryLevel") THEN Raise("KeyError")
                     ELSE PrintIf(last_signals["BatteryLevel"] - signals["BatteryLevel"] > 10,
                                  "battery_drop")))
      [] message_name = "ClimateControl" ->
           IF ~BothHave(signals, last_signals, "CabinTemp") THEN Raise("KeyError")
           ELSE PrintIf(Delta(signals, last_signals, "CabinTemp") > 5, "cabin_temp_delta")
      [] OTHER -> Ok(<<>>, <<>>)

\* the VehicleData branch of _check_signal_based_anomalies
\* the VehicleData branch with a tolerance of two gears instead of one
GearChecksTolerateTwo(speed, current_gear) ==
    IF speed > 0
    THEN Then(PrintIf(Abs(GetExpectedGear(speed) - current_gear) > 2, "gear_mismatch"),
              PrintIf((speed > 100 /\ current_gear <= 2)
                        \/ (speed < 20 /\ current_gear >= 3),
                      "critical_gear_mismatch"))
    ELSE Ok(<<>>, <<>>)

GearChecks(speed, current_gear) ==
    IF speed > 0
    THEN Then(PrintIf(Abs(GetExpectedGear(speed) - current_gear) > 1, "gear_mismatch"),
              PrintIf((speed > 100 /\ current_gear <= 2)
                        \/ (~(speed > 100 /\ current_gear <= 2)
                              /\ speed < 20 /\ current_gear >= 3),
                      "critical_gear_mismatch"))
    ELSE Ok(<<>>, <<>>)

\* the ClimateControl branch of _check_signal_based_anomalies
CabinChecks(cabin_temp, ac_status) ==
    IF cabin_temp < 10
    THEN Then(PrintIf(TRUE, "low_cabin_temp"), PrintIf(ac_status = 0, "heating_advice"))
    ELSE IF cabin_temp > 30
    THEN Then(PrintIf(TRUE, "critical_high_cabin_temp"), PrintIf(ac_status = 0, "cooling_advice"))
    ELSE Ok(<<>>, <<>>)

\* _check_signal_based_anomalies(signals, message_name): prints only
CheckSignalBasedAnomalies(signals, message_name) ==
    CASE message_name = "EngineData" ->
           Then(PrintIf(Get(signals, "EngineTemp", 0) > 120, "critical_engine_temp"),
                IF Get(signals, "BatteryLevel", 0) < 20 THEN PrintIf(TRUE, "critical_battery")
                ELSE PrintIf(Get(signals, "BatteryLevel", 0) < 30, "low_battery"))
      [] message_name = "VehicleData" ->
           GearChecks(Get(signals, "Speed", 0), Get(signals, "GearPosition", 1))
      [] message_name = "ClimateControl" ->
           CabinChecks(Get(signals, "CabinTemp", 20), Get(signals, "ACStatus", 0))
      [] OTHER -> Ok(<<>>, <<>>)

----------------------------------------------------------------------------
(* Outlier model manager *)

\* f with f[k] = v, k added to its keys when new
Put(f, k, v) == [x \in DOMAIN f \cup {k} |-> IF x = k THEN v ELSE f[x]]

EmptyMap == <<>>

\* _initialize_models creating a new model for every type, files or not
InitializeModelsAlwaysNew(disk) == [t \in MsgTypes |-> NewModel]

\* _initialize_models: load each artifact that exists; a failed load and a
\* missing artifact both give a new, unfitted model
InitializeModels(disk) ==
    [t \in MsgTypes |->
        IF Exists(disk, t)
        THEN IF disk[t].readable THEN disk[t].model ELSE NewModel
        ELSE NewModel]

\* _check_trained_models: every artifact path exists
CheckTrainedModels(disk) == \A t \in MsgTypes : Exists(disk, t)

\* the message types whose joblib.load succeeded in _initialize_models
LoadedTypes(disk) == {t \in MsgTypes : Exists(disk, t) /\ disk[t].readable}

\* can_train without the comparison with min_samples_for_training
CanTrainAnySize(data) == \A k \in DOMAIN data : Len(data[k]) >= 0

\* can_train of _train_models_if_needed: all() over the buffers that exist
CanTrain(data) == \A k \in DOMAIN data : Len(data[k]) >= MinSamples

\* _save_models without the try/except around dump: the first failed dump
\* ends the loop over isolation_forests
SaveModelsUntilFailure(forests, disk, save_ok) ==
    [t \in MsgTypes |->
        IF \A i \in 1..Len(MessageTypes) :
               (\E j \in i..Len(MessageTypes) : MessageTypes[j] = t)
                  => MessageTypes[i] \in save_ok
        THEN File(forests[t]) ELSE disk[t]]

\* _save_models: dump every model of isolation_forests; a failed dump is
\* caught and leaves the old file (save_ok: the types whose dump succeeds)
SaveModels(forests, disk, save_ok) ==
    [t \in MsgTypes |-> IF t \in save_ok THEN File(forests[t]) ELSE disk[t]]

\* _train_models_if_needed past its first check: update the progress, and
\* when can_train, fit every buffered type, save all models and set the flag
TrainPass(m, save_ok) ==
    LET progress == [t \in DOMAIN m.progress |->
                        IF t \in DOMAIN m.data THEN Len(m.data[t]) ELSE m.progress[t]]
    IN  IF ~CanTrain(m.data) THEN [m EXCEPT !.progress = progress]
        ELSE LET fitted == [t \in MsgTypes |->
                               IF t \in DOMAIN m.data THEN Fit(m.data[t])
                               ELSE m.forests[t]]
             IN  [m EXCEPT !.progress = progress,
                           !.forests = fitted,
                           !.disk = SaveModels(fitted, m.disk, save_ok),
                           !.trained = TRUE,
                           !.fits = DOMAIN m.data,
                           !.saves = save_ok,
                           !.passes = m.passes + 1]

\* _train_models_if_needed without its "if self.is_model_trained: return"
TrainModelsAlways(m, save_ok) == TrainPass(m, save_ok)

\* _train_models_if_needed on the manager state m
TrainModelsIfNeeded(m, save_ok) ==
    IF m.trained THEN m ELSE TrainPass(m, save_ok)

\* the "Olası Sebepler" prints after an isolation_forest anomaly: they index
\* signals[...] directly
ExplainAnomaly(message_name, signals) ==
    CASE message_name = "ClimateControl" ->
           IF Has(signals, "CabinTemp") THEN Ok(<<>>, <<>>) ELSE Raise("KeyError")
      [] message_name = "EngineData" ->
           IF Has(signals, "EngineTemp") /\ Has(signals, "EngineSpeed")
                 /\ Has(signals, "BatteryLevel")
           THEN Ok(<<>>, <<>>) ELSE Raise("KeyError")
      [] message_name = "VehicleData" ->
           IF Has(signals, "Speed")
                 /\ (signals["Speed"] > 60 => Has(signals, "GearPosition"))
                 /\ Has(signals, "BatteryVoltage")
           THEN Ok(<<>>, <<>>) ELSE Raise("KeyError")
      [] OTHER -> Ok(<<>>, <<>>)

\* _check_isolation_forest_anomalies deciding on predict by the value
\* is_model_trained had before _train_models_if_needed ran
CheckIsolationForestAnomaliesStaleFlag(m, message_name, signals, prediction, save_ok) ==
    IF message_name = "ClimateControl"
          /\ ~(Has(signals, "ACStatus") /\ Has(signals, "FanSpeed"))
    THEN [m EXCEPT !.res = Raise("KeyError")]
    ELSE LET data == PrepareData(message_name, signals) IN
         IF Len(data) = 0 THEN m
         ELSE LET appended == [m EXCEPT !.data =
                                 Put(m.data, message_name,
                                     IF message_name \in DOMAIN m.data
                                     THEN Append(m.data[message_name], data)
                                     ELSE <<data>>)]
                  t == TrainModelsIfNeeded(appended, save_ok)
              IN  IF ~m.trained THEN t
                  ELSE LET p == [t EXCEPT !.predicts =
                                   <<[type |-> message_name, row |-> data,
                                      fitted |-> t.forests[message_name].fitted,
                                      result |-> IF t.forests[message_name].fitted
                                                 THEN prediction ELSE 0]>>]
                       IN  IF ~t.forests[message_name].fitted
                           THEN [p EXCEPT !.res = Raise("NotFittedError")]
                           ELSE IF prediction = -1
                           THEN [p EXCEPT !.res =
                                   Then(Ok(<<"isolation_forest">>, <<>>),
                                        ExplainAnomaly(message_name, signals))]
                           ELSE p

\* _check_isolation_forest_anomalies on the manager state m; prediction is what
\* IsolationForest.predict returns for the row (1 or -1) when the model is fitted
CheckIsolationForestAnomalies(m, message_name, signals, prediction, save_ok) ==
    IF message_name = "ClimateControl"
          /\ ~(Has(signals, "ACStatus") /\ Has(signals, "FanSpeed"))
    THEN [m EXCEPT !.res = Raise("KeyError")]
    ELSE LET data == PrepareData(message_name, signals) IN
         IF Len(data) = 0 THEN m
         ELSE LET appended == [m EXCEPT !.data =
                                 Put(m.data, message_name,
                                     IF message_name \in DOMAIN m.data
                                     THEN Append(m.data[message_name], data)
                                     ELSE <<data>>)]
                  t == TrainModelsIfNeeded(appended, save_ok)
              IN  IF ~t.trained THEN t
                  ELSE LET p == [t EXCEPT !.predicts =
                                   <<[type |-> message_name, row |-> data,
                                      fitted |-> t.forests[message_name].fitted,
                                      result |-> IF t.forests[message_name].fitted
                                                 THEN prediction ELSE 0]>>]
                       IN  IF ~t.forests[message_name].fitted
                           THEN [p EXCEPT !.res = Raise("NotFittedError")]
                           ELSE IF prediction = -1
                           THEN [p EXCEPT !.res =
                                   Then(Ok(<<"isolation_forest">>, <<>>),
                                        ExplainAnomaly(message_name, signals))]
                           ELSE p

----------------------------------------------------------------------------
(* Detection engine *)

\* the Point _save_anomaly_to_influxdb builds for one anomaly
Anomaly(vehicle_id, anomaly_type, message_type, geography, signals) ==
    [vehicle_id |-> vehicle_id, anomaly_type |-> anomaly_type,
     message_type |-> message_type, geography |-> geography,
     severity |-> "warning", signals |-> signals]

Anomalies(types, vehicle_id, message_type, geography, signals) ==
    [i \in 1..Len(types) |->
        Anomaly(vehicle_id, types[i], message_type, geography, signals)]

\* VehicleState(vehicle_id, last_update, last_values, geography)
VehicleState(vehicle_id, last_update, last_values, geography) ==
    [vehicle_id |-> vehicle_id, last_update |-> last_update,
     last_values |-> last_values, geography |-> geography]

\* the rules run before state.geography is assigned
StaleGeography(previous, supplied) == previous

\* state.geography = geography: the geography the rules of this call see
CurrentGeography(previous, supplied) == supplied

\* update_vehicle_state storing the snapshot only when the type has none yet
RecordFirstSnapshotOnly(state, message_name, signals, current_time) ==
    IF message_name \in DOMAIN state.last_values THEN state
    ELSE [state EXCEPT !.last_values = Put(@, message_name, signals)]

\* update_vehicle_state replacing last_values by the new snapshot alone
RecordLatestSnapshotOnly(state, message_name, signals, current_time) ==
    [state EXCEPT !.last_values = Put(EmptyMap, message_name, signals),
                  !.last_update = IF message_name \in DOMAIN state.last_values
                                  THEN current_time ELSE @]

\* the assignments that end update_vehicle_state: last_values[message_name] in
\* both branches, last_update only when a previous snapshot existed
RecordSnapshot(state, message_name, signals, current_time) ==
    [state EXCEPT !.last_values = Put(@, message_name, signals),
                  !.last_update = IF message_name \in DOMAIN state.last_values
                                  THEN current_time ELSE @]

\* the rule checks of update_vehicle_state when a previous snapshot exists
RunRules(last_signals, geography, message_name, signals) ==
    Then(CheckTemporalAnomalies(last_signals, message_name, signals),
         Then(CheckGeographyBasedAnomalies(geography, message_name, signals),
              CheckSignalBasedAnomalies(signals, message_name)))

\* the rule families update_vehicle_state ran, given how the rules ended
FamiliesRun(last_signals, geography, message_name, signals) ==
    LET t == CheckTemporalAnomalies(last_signals, message_name, signals)
        g == CheckGeographyBasedAnomalies(geography, message_name, signals)
    IN  IF t.err # "none" THEN {"temporal"}
        ELSE IF g.err # "none" THEN {"temporal", "geography"}
        ELSE {"temporal", "geography", "signal"}

\* the manager's part of the detector state
Manager ==
    [data |-> collected_data, progress |-> training_progress,
     forests |-> isolation_forests, disk |-> artifacts,
     trained |-> is_model_trained, passes |-> train_passes,
     fits |-> {}, saves |-> {}, predicts |-> <<>>, res |-> Ok(<<>>, <<>>)]

\* update_vehicle_state(vehicle_id, message_data, geography) at time current_time:
\* the detector state it leaves and what it did
Handle(vehicle_id, message_data, geography, current_time, prediction, save_ok) ==
    LET message_name == message_data.name
        signals == message_data.signals
        created == IF vehicle_id \in DOMAIN vehicle_states THEN vehicle_states
                   ELSE Put(vehicle_states, vehicle_id,
                            VehicleState(vehicle_id, current_time, EmptyMap, geography))
        m == CheckIsolationForestAnomalies(Manager, message_name, signals,
                                           prediction, save_ok)
        model_writes == Anomalies(m.res.w, vehicle_id, message_name,
                                  created[vehicle_id].geography, signals)
        state == [created[vehicle_id] EXCEPT !.geography = CurrentGeography(@, geography)]
        had_previous == message_name \in DOMAIN state.last_values
        last_signals == state.last_values[message_name]
        rules == IF had_previous
                 THEN RunRules(last_signals, state.geography, message_name, signals)
                 ELSE Ok(<<>>, <<>>)
        rule_writes == Anomalies(rules.w, vehicle_id, message_name,
                                 state.geography, signals)
        recorded == RecordSnapshot(state, message_name, signals, current_time)
        observed == [vehicle_id |-> vehicle_id, name |-> message_name,
                     signals |-> signals, geography |-> geography,
                     time |-> current_time,
                     previous_geography |-> created[vehicle_id].geography,
                     had_previous |-> had_previous,
                     trained_before |-> is_model_trained,
                     model_outcome |-> m.res.err,
                     fits |-> m.fits, saves |-> m.saves, predicts |-> m.predicts]
    IN  IF m.res.err # "none"
        THEN [m |-> m, states |-> created,
              call |-> observed
                         @@ [outcome |-> m.res.err, writes |-> model_writes,
                             diags |-> m.res.d, families |-> {},
                             compared |-> EmptyMap]]
        ELSE IF rules.err # "none"
        THEN [m |-> m, states |-> Put(created, vehicle_id, state),
              call |-> observed
                         @@ [outcome |-> rules.err, writes |-> model_writes \o rule_writes,
                             diags |-> m.res.d \o rules.d,
                             families |-> FamiliesRun(last_signals, state.geography,
                                                      message_name, signals),
                             compared |-> last_signals]]
        ELSE [m |-> m, states |-> Put(created, vehicle_id, recorded),
              call |-> observed
                         @@ [outcome |-> "ok", writes |-> model_writes \o rule_writes,
                             diags |-> m.res.d \o rules.d,
                             families |-> IF had_previous
                                          THEN {"temporal", "geography", "signal"} ELSE {},
                             compared |-> IF had_previous THEN last_signals ELSE EmptyMap]]

\* the members of seq at the positions in keep, in their order
Kept(seq, keep) ==
    LET F[i \in 0..Len(seq)] ==
            IF i = 0 THEN <<>>
            ELSE IF i \in keep THEN Append(F[i - 1], seq[i]) ELSE F[i - 1]
    IN  F[Len(seq)]

\* the position of the first anomaly of seq whose write fails, 0 when none does
FirstFailure(seq, sink_ok) ==
    IF \A i \in 1..Len(seq) : i \in sink_ok THEN 0
    ELSE CHOOSE i \in 1..Len(seq) :
             /\ i \notin sink_ok
             /\ \A j \in 1..(i - 1) : j \in sink_ok

\* _save_anomaly_to_influxdb without its try/except: the first failed write
\* ends update_vehicle_state before it records the snapshot
SinkErrorsPropagate(h, sink_ok) ==
    LET f == FirstFailure(h.call.writes, sink_ok)
        v == h.call.vehicle_id
    IN  IF f = 0 THEN [h EXCEPT !.call = [attempts |-> h.call.writes] @@ h.call]
        ELSE [h EXCEPT
                !.states = Put(h.states, v,
                               IF v \in DOMAIN vehicle_states THEN vehicle_states[v]
                               ELSE VehicleState(v, h.call.time, EmptyMap, h.call.geography)),
                !.call = [attempts |-> SubSeq(h.call.writes, 1, f),
                          writes |-> SubSeq(h.call.writes, 1, f - 1),
                          outcome |-> "SinkError"] @@ h.call]

\* _save_anomaly_to_influxdb over the anomalies of the call h: write_api.write
\* succeeds for the anomalies at the positions sink_ok; a failed write is
\* caught and printed inside the method, and the call goes on
SaveAnomalyToInfluxdb(h, sink_ok) ==
    [h EXCEPT !.call = [attempts |-> h.call.writes,
                        writes |-> Kept(h.call.writes, sink_ok)] @@ h.call]

----------------------------------------------------------------------------
(* Inputs of the model *)

\* decoded snapshots delivered by the message source, per message type
Snapshots(message_name) ==
    CASE message_name = "VehicleData" ->
           {[Speed |-> 30, GearPosition |-> 1, BatteryVoltage |-> 400],
            [Speed |-> 90, GearPosition |-> 1, BatteryVoltage |-> 400]}
      [] message_name = "EngineData" ->
           {[EngineSpeed |-> 2000, EngineTemp |-> 90, BatteryLevel |-> 80],
            [EngineSpeed |-> 4500, EngineTemp |-> 110, BatteryLevel |-> 15]}
      [] message_name = "ClimateControl" ->
           {[CabinTemp |-> 22, FanSpeed |-> 2, ACStatus |-> 1],
            [CabinTemp |-> 32, FanSpeed |-> 0, ACStatus |-> 0]}

Messages == UNION {{[name |-> t, signals |-> s] : s \in Snapshots(t)} : t \in MsgTypes}

\* the model files a first process can find: none, valid ones, unreadable ones
StartDisks == [MsgTypes -> {Absent, PriorModel, Corrupt}]

NoCall ==
    [vehicle_id |-> "", name |-> "", signals |-> EmptyMap, geography |-> "",
     time |-> 0, previous_geography |-> "", had_previous |-> FALSE, trained_before |-> FALSE,
     fits |-> {}, saves |-> {}, predicts |-> <<>>,
     outcome |-> "none", writes |-> <<>>, diags |-> <<>>, families |-> {},
     compared |-> EmptyMap, attempts |-> <<>>, model_outcome |-> "none"]

----------------------------------------------------------------------------
(* The state machine *)

\* the threads that can be inside update_vehicle_state
Threads == {"T1", "T2"}

\* a thread that is not inside update_vehicle_state, and the local variables
\* of the method
IdleThread ==
    [pc |-> "idle", vehicle_id |-> "", message_data |-> [name |-> "", signals |-> EmptyMap],
     geography |-> "", current_time |-> 0,
     attached |-> TRUE, orphan |-> VehicleState("", 0, EmptyMap, ""),
     last_signals |-> EmptyMap, overwrote |-> EmptyMap, fit_data |-> EmptyMap,
     raced |-> FALSE, outcome |-> "none", writes |-> <<>>]

NoThreads == [t \in Threads |-> IdleThread]

\* AnomalyDetector.__init__ over the model files on disk
Construct(disk) ==
    /\ vehicle_states' = EmptyMap
    /\ collected_data' = EmptyMap
    /\ training_progress' = [t \in MsgTypes |-> 0]
    /\ isolation_forests' = InitializeModels(disk)
    /\ is_model_trained' = CheckTrainedModels(disk)
    /\ found' = {t \in MsgTypes : Exists(disk, t)}
    /\ loaded' = LoadedTypes(disk)
    /\ train_passes' = 0
    /\ delivered' = EmptyMap
    /\ threads' = NoThreads
    /\ inbox' = <<>>
    /\ call' = NoCall

\* the detector a first process constructs over the model files disk
Started(disk) ==
    /\ vehicle_states = EmptyMap
    /\ collected_data = EmptyMap
    /\ training_progress = [t \in MsgTypes |-> 0]
    /\ isolation_forests = InitializeModels(disk)
    /\ is_model_trained = CheckTrainedModels(disk)
    /\ artifacts = disk
    /\ now = 0
    /\ found = {t \in MsgTypes : Exists(disk, t)}
    /\ loaded = LoadedTypes(disk)
    /\ train_passes = 0
    /\ restarts = 0
    /\ delivered = EmptyMap
    /\ threads = NoThreads
    /\ inbox = <<>>
    /\ current_vehicle_index = 0
    /\ saved = [csv |-> 0, influxdb |-> 0]

NoFiles == [t \in MsgTypes |-> Absent]

AllFiles == [t \in MsgTypes |-> PriorModel]

Init ==
    /\ \E disk \in StartDisks : Started(disk)
    /\ call = NoCall

\* the detector state the call h leaves
Detector(h) ==
    /\ vehicle_states' = h.states
    /\ collected_data' = h.m.data
    /\ training_progress' = h.m.progress
    /\ isolation_forests' = h.m.forests
    /\ is_model_trained' = h.m.trained
    /\ artifacts' = h.m.disk
    /\ train_passes' = h.m.passes

\* one call of update_vehicle_state, as on_message makes it
UpdateVehicleState(vehicle_id, message_data, geography, prediction, save_ok, sink_ok) ==
    /\ now < MaxMsgs
    /\ \E h \in {SaveAnomalyToInfluxdb(Handle(vehicle_id, message_data, geography,
                                             now + 1, prediction, save_ok), sink_ok)} :
           /\ Detector(h)
           /\ call' = h.call
    /\ delivered' = Put(delivered, <<vehicle_id, message_data.name>>, message_data.signals)
    /\ now' = now + 1
    /\ UNCHANGED <<found, loaded, restarts, threads, inbox, current_vehicle_index, saved>>

\* the subscriber process is started again over the files on disk
Restart ==
    /\ restarts < MaxRestarts
    /\ Construct(artifacts)
    /\ restarts' = restarts + 1
    /\ current_vehicle_index' = 0
    /\ UNCHANGED <<artifacts, now, saved>>

\* the predictions that can differ for this call: predict only runs once trained
Predictions(message_data) ==
    IF CheckIsolationForestAnomalies(Manager, message_data.name, message_data.signals,
                                     1, MsgTypes).predicts = <<>>
    THEN {1} ELSE {1, -1}

\* the dump outcomes that can differ for this call: dump only runs in a training pass
SaveOutcomes(message_data) ==
    IF CheckIsolationForestAnomalies(Manager, message_data.name, message_data.signals,
                                     1, MsgTypes).fits = {}
    THEN {MsgTypes} ELSE SUBSET MsgTypes

\* on_message delivers one decoded message of the given inputs to the detector,
\* every write to the sink succeeding
Deliver(vehicles, messages, geographies) ==
    \E vehicle_id \in vehicles, message_data \in messages, geography \in geographies :
        \E prediction \in Predictions(message_data), save_ok \in SaveOutcomes(message_data) :
            UpdateVehicleState(vehicle_id, message_data, geography, prediction, save_ok, Nat)

\* the write outcomes that can differ for this call: one per anomaly it saves
SinkOutcomes(vehicle_id, message_data, geography, prediction, save_ok) ==
    SUBSET (1..Len(Handle(vehicle_id, message_data, geography, now + 1,
                          prediction, save_ok).call.writes))

\* on_message delivers one decoded message while writes to the sink can fail
DeliverUnreliableSink(vehicles, messages, geographies) ==
    \E vehicle_id \in vehicles, message_data \in messages, geography \in geographies :
        \E prediction \in Predictions(message_data), save_ok \in SaveOutcomes(message_data) :
            \E sink_ok \in SinkOutcomes(vehicle_id, message_data, geography,
                                        prediction, save_ok) :
                UpdateVehicleState(vehicle_id, message_data, geography,
                                   prediction, save_ok, sink_ok)

\* Model lifecycle: one vehicle and one snapshot per message type, any model
\* files at the start, restarts.
LifecycleMessages ==
    {[name |-> t, signals |-> CHOOSE s \in Snapshots(t) : TRUE] : t \in MsgTypes}

Next == Deliver({"VHC_01"}, LifecycleMessages, {"urban"})

Spec == Init /\ [][Next]_vars

\* The same run by a first process that finds no model files.
InitFresh ==
    /\ Started(NoFiles)
    /\ call = NoCall

SpecFresh == InitFresh /\ [][Next]_vars

\* the messages of type t handled so far: every handled message leaves a row
Handled(t) == IF t \in DOMAIN collected_data THEN Len(collected_data[t]) ELSE 0

\* on_message delivers a message of type t to the detector; every dump of a
\* training pass succeeds
Receive(t) ==
    /\ Handled(t) < MaxTypeMsgs
    /\ \E message_data \in {m \in LifecycleMessages : m.name = t} :
       \E prediction \in Predictions(message_data), save_ok \in {MsgTypes} :
       \E h \in {SaveAnomalyToInfluxdb(Handle("VHC_01", message_data, "urban", now + 1,
                                             prediction, save_ok), Nat)} :
          /\ Detector(h)
          /\ call' = h.call
          /\ delivered' = Put(delivered, <<"VHC_01", t>>, message_data.signals)
    /\ now' = now + 1
    /\ UNCHANGED <<found, loaded, restarts, threads, inbox, current_vehicle_index, saved>>

\* Fair delivery: started without model files, the publisher keeps sending
\* messages of all three types, and no type is held back for ever.
NextLive == \E t \in MsgTypes : Receive(t)

SpecLive ==
    /\ InitFresh
    /\ [][NextLive]_vars
    /\ \A t \in MsgTypes : WF_vars(Receive(t))

\* The same run started without model files, with restarts of the process.
NextRestart ==
    \/ Next
    \/ Restart

SpecRestart == InitFresh /\ [][NextRestart]_vars

\* Rule evaluation: every vehicle, snapshot and geography, over a short run
\* that starts with no model files or with all of them.
InitRules ==
    /\ \E disk \in {NoFiles, AllFiles} : Started(disk)
    /\ call = NoCall

RuleGeographies == {"rainy", "snowy", "urban", "hot"}

NextRules ==
    /\ now < MaxRuleMsgs
    /\ Deliver(Vehicles, Messages, RuleGeographies)

SpecRules == InitRules /\ [][NextRules]_vars

\* Detection with an unreliable sink: one vehicle whose models were loaded
\* from their files, any write of an anomaly failing or succeeding.
InitSink ==
    /\ Started(AllFiles)
    /\ call = NoCall

NextSink ==
    /\ now < MaxSinkMsgs
    /\ DeliverUnreliableSink({"VHC_01"}, Messages, {"rainy", "hot"})

SpecSink == InitSink /\ [][NextSink]_vars

\* Inputs at the boundary of update_vehicle_state: snapshots that lack one of
\* their type's signals and a message whose name is none of the three types,
\* next to well-formed ones.
BoundaryMessages ==
    {[name |-> "VehicleData", signals |-> s] : s \in Snapshots("VehicleData")}
      \cup {[name |-> "VehicleData", signals |-> [Speed |-> 80, BatteryVoltage |-> 400]],
            [name |-> "ClimateControl",
             signals |-> [CabinTemp |-> 22, FanSpeed |-> 2, ACStatus |-> 1]],
            [name |-> "ClimateControl", signals |-> [CabinTemp |-> 22, FanSpeed |-> 2]],
            [name |-> "BrakeData", signals |-> [BrakePressure |-> 5]]}

NextBoundary ==
    /\ now < MaxBoundaryMsgs
    /\ Deliver({"VHC_01"}, BoundaryMessages, {"urban", "highway"})

SpecBoundary == InitRules /\ [][NextBoundary]_vars

\* The temporal rules: one vehicle in rainy geography whose consecutive
\* VehicleData and EngineData snapshots differ by less than, exactly and more
\* than the thresholds, started with no model files or with all of them.
TemporalMessages ==
    {[name |-> "VehicleData",
      signals |-> [Speed |-> v, GearPosition |-> 1, BatteryVoltage |-> 400]] :
        v \in {30, 49, 50, 51, 70, 90}}
      \cup {[name |-> "EngineData",
             signals |-> [EngineSpeed |-> 2000, EngineTemp |-> c, BatteryLevel |-> 80]] :
                c \in {75, 89, 90, 91, 105}}

NextTemporal ==
    /\ now < MaxTemporalMsgs
    /\ Deliver({"VHC_01"}, TemporalMessages, {"rainy"})

SpecTemporal == InitRules /\ [][NextTemporal]_vars

\* The geography rules alone, applied to every geography, message type and
\* snapshot of a range of values around the thresholds.
GeoSnapshots(message_name) ==
    CASE message_name = "VehicleData" ->
           {[Speed |-> v, GearPosition |-> 3, BatteryVoltage |-> 400] : v \in 45..75}
      [] message_name = "EngineData" ->
           {[EngineSpeed |-> r, EngineTemp |-> c, BatteryLevel |-> 80] :
               r \in 3999..4001, c \in 93..102}
      [] message_name = "ClimateControl" ->
           {[CabinTemp |-> c, FanSpeed |-> 2 * a, ACStatus |-> a] :
               c \in 16..30, a \in {0, 1}}

InitGeo ==
    /\ Started(NoFiles)
    /\ \E geography \in Geography, t \in MsgTypes :
          \E signals \in GeoSnapshots(t) :
             call = [NoCall EXCEPT !.vehicle_id = "VHC_01", !.name = t,
                                   !.signals = signals, !.geography = geography]

\* _check_geography_based_anomalies(state, message_name, signals) on the inputs drawn
EvalGeography ==
    /\ call.outcome = "none"
    /\ \E r \in {CheckGeographyBasedAnomalies(call.geography, call.name, call.signals)} :
          call' = [call EXCEPT !.outcome = IF r.err = "none" THEN "ok" ELSE r.err,
                               !.writes = Anomalies(r.w, call.vehicle_id, call.name,
                                                    call.geography, call.signals),
                               !.attempts = Anomalies(r.w, call.vehicle_id, call.name,
                                                      call.geography, call.signals),
                               !.families = {"geography"}]
    /\ UNCHANGED <<vehicle_states, collected_data, training_progress, isolation_forests,
                   is_model_trained, artifacts, now, found, loaded, train_passes, restarts,
                   delivered, threads, inbox,
                   current_vehicle_index, saved>>

SpecGeo == InitGeo /\ [][EvalGeography]_vars

\* The signal rules and the gear functions alone, applied to a VehicleData
\* snapshot of every speed and gear.
Gears == 1..6

InitSignal ==
    /\ Started(NoFiles)
    /\ \E speed \in 0..MaxSpeed, gear \in Gears :
          call = [expected_gear |-> 0, appropriate_gear |-> <<0, 0>>]
                   @@ [NoCall EXCEPT
                         !.vehicle_id = "VHC_01", !.name = "VehicleData",
                         !.signals = [Speed |-> speed, GearPosition |-> gear,
                                      BatteryVoltage |-> 400]]

\* _check_signal_based_anomalies(signals, message_name), _get_expected_gear(speed)
\* and the publishers' get_appropriate_gear(speed) on the snapshot drawn
EvalSignal ==
    /\ call.outcome = "none"
    /\ call.name = "VehicleData"
    /\ \E r \in {CheckSignalBasedAnomalies(call.signals, call.name)} :
          call' = [call EXCEPT
                     !.outcome = IF r.err = "none" THEN "ok" ELSE r.err,
                     !.diags = r.d,
                     !.families = {"signal"},
                     !.expected_gear = GetExpectedGear(call.signals.Speed),
                     !.appropriate_gear =
                         <<GetAppropriateGear(call.signals.Speed),
                           GetAppropriateGearOfSrcPublisher(call.signals.Speed)>>]
    /\ UNCHANGED <<vehicle_states, collected_data, training_progress, isolation_forests,
                   is_model_trained, artifacts, now, found, loaded, train_passes, restarts,
                   delivered, threads, inbox,
                   current_vehicle_index, saved>>

SpecSignal == InitSignal /\ [][EvalSignal]_vars

\* Signal rules of both message types: the VehicleData snapshots above and
\* EngineData snapshots of every battery level, around the engine temperature
\* threshold.
InitSignals ==
    \/ InitSignal
    \/ /\ Started(NoFiles)
       /\ \E level \in 0..MaxBatteryLevel, temp \in {120, 121} :
             call = [expected_gear |-> 0, appropriate_gear |-> <<0, 0>>]
                      @@ [NoCall EXCEPT
                            !.vehicle_id = "VHC_01", !.name = "EngineData",
                            !.signals = [EngineSpeed |-> 2000, EngineTemp |-> temp,
                                         BatteryLevel |-> level]]

\* _check_signal_based_anomalies(signals, "EngineData") on the snapshot drawn
EvalEngineSignal ==
    /\ call.outcome = "none"
    /\ call.name = "EngineData"
    /\ \E r \in {CheckSignalBasedAnomalies(call.signals, call.name)} :
          call' = [call EXCEPT
                     !.outcome = IF r.err = "none" THEN "ok" ELSE r.err,
                     !.diags = r.d,
                     !.families = {"signal"}]
    /\ UNCHANGED <<vehicle_states, collected_data, training_progress, isolation_forests,
                   is_model_trained, artifacts, now, found, loaded, train_passes, restarts,
                   delivered, threads, inbox,
                   current_vehicle_index, saved>>

NextSignals ==
    \/ EvalSignal
    \/ EvalEngineSignal

SpecSignals == InitSignals /\ [][NextSignals]_vars

----------------------------------------------------------------------------
(* The subscribers' ClimateControl normalization, applied by on_message to   *)
(* the decrypted snapshot before it is handed to the detector.               *)

\* the range of the FanSpeed signal
FanSpeeds == 0..5

\* on_message leaving the ClimateControl snapshot as it was received
NormalizeClimateControlNever(signals, fan_choice) == signals

\* on_message of the subscriber with the InfluxDB sink: an AC that is on with
\* the fan off gets a fan speed from random.randint(1, 3) (fan_choice), a fan
\* that runs with the AC off is switched off
NormalizeClimateControl(signals, fan_choice) ==
    LET ac_status == Get(signals, "ACStatus", 0)
        fan_speed == Get(signals, "FanSpeed", 0)
    IN  IF ac_status = 1 /\ fan_speed = 0 THEN Put(signals, "FanSpeed", fan_choice)
        ELSE IF ac_status = 0 /\ fan_speed > 0 THEN Put(signals, "FanSpeed", 0)
        ELSE signals

\* on_message of src/subscriber.py: the fan is switched off when the AC is
\* off, and a running fan sets ACStatus to 1 otherwise
NormalizeClimateControlOfSrcSubscriber(signals) ==
    LET ac_status == Get(signals, "ACStatus", 0)
        fan_speed == Get(signals, "FanSpeed", 0)
    IN  IF ac_status = 0 THEN Put(signals, "FanSpeed", 0)
        ELSE IF fan_speed > 0 THEN Put(signals, "ACStatus", 1)
        ELSE signals

\* the condition of the detector's "AC on while the fan is off" explanation
ExplainsACWithoutFan(signals) == signals["ACStatus"] = 1 /\ signals["FanSpeed"] = 0

\* a ClimateControl snapshot as decrypted, before normalization
InitClimate ==
    /\ Started(NoFiles)
    /\ \E cabin_temp \in {10, 22, 31, 35}, fan_speed \in FanSpeeds, ac_status \in {0, 1} :
          call = [variant |-> "", handed |-> EmptyMap]
                   @@ [NoCall EXCEPT
                         !.name = "ClimateControl",
                         !.signals = [CabinTemp |-> cabin_temp, FanSpeed |-> fan_speed,
                                      ACStatus |-> ac_status]]

\* what follows the normalization in both subscribers: nothing of the
\* detector has run yet
Handed(variant, signals) ==
    /\ call.outcome = "none"
    /\ call' = [call EXCEPT !.outcome = "ok", !.variant = variant, !.handed = signals]
    /\ UNCHANGED <<vehicle_states, collected_data, training_progress, isolation_forests,
                   is_model_trained, artifacts, now, found, loaded, train_passes, restarts,
                   delivered, threads, inbox,
                   current_vehicle_index, saved>>

\* the snapshot the subscriber with the InfluxDB sink hands to the detector
NormalizeInSubscriber ==
    \E fan_choice \in 1..3 :
        Handed("db", NormalizeClimateControl(call.signals, fan_choice))

\* the snapshot src/subscriber.py hands to the detector
NormalizeInSrcSubscriber ==
    Handed("csv", NormalizeClimateControlOfSrcSubscriber(call.signals))

NextClimate ==
    \/ NormalizeInSubscriber
    \/ NormalizeInSrcSubscriber

SpecClimate == InitClimate /\ [][NextClimate]_vars

----------------------------------------------------------------------------
(* on_message of the subscriber: integrity check, decryption, round-robin    *)
(* attribution to a vehicle, the detector call and the two stores.           *)

\* the key and the initialization vector the publisher encrypts with
AES_KEY == "AES_KEY"

AES_IV == "AES_IV"

\* encrypt_data(can_json, key, iv) of the publisher: AES-CBC over the JSON text
EncryptData(can_data, key, iv) ==
    [wellformed |-> TRUE, plain |-> can_data, key |-> key, iv |-> iv]

\* bytes that are no ciphertext of a CAN message under any key
Garbage ==
    [wellformed |-> FALSE, plain |-> [name |-> "", signals |-> EmptyMap],
     key |-> "", iv |-> ""]

\* hashlib.sha256(encrypted_data).hexdigest(): a digest that tells the
\* ciphertexts of the model apart
Sha256(encrypted_data) == <<"sha256", encrypted_data>>

\* decrypt_data followed by json.loads: the CAN message when the bytes were
\* encrypted with this key and this iv; otherwise unpadding or parsing raises
Decrypts(encrypted_data, key, iv) ==
    /\ encrypted_data.wellformed
    /\ encrypted_data.key = key
    /\ encrypted_data.iv = iv

DecryptData(encrypted_data, key, iv) == encrypted_data.plain

\* on_message without the comparison of the two digests
IntegrityCheckSkipped(message) == TRUE

\* calculated_hash == sha256_hash
IntegrityCheck(message) == Sha256(message.data) = message.hash

\* current_vehicle_index = (current_vehicle_index + 1) % len(VEHICLE_IDS)
NextVehicleIndex(index) == (index + 1) % Len(VEHICLE_IDS)

\* the CAN messages the publisher sends in the subscriber specification
PublishedMessages ==
    {[name |-> "VehicleData",
      signals |-> [Speed |-> 90, GearPosition |-> 1, BatteryVoltage |-> 400]],
     [name |-> "ClimateControl",
      signals |-> [CabinTemp |-> 32, FanSpeed |-> 2, ACStatus |-> 0]]}

\* create_and_encrypt_message of the publisher: the payload of a CAN message
MqttPayloads ==
    {[data |-> EncryptData(m, AES_KEY, AES_IV),
      hash |-> Sha256(EncryptData(m, AES_KEY, AES_IV)),
      iv |-> AES_IV] : m \in PublishedMessages}

\* payloads changed on the way: another digest, another iv next to the
\* unchanged data, or other bytes together with their own digest
TamperedPayloads ==
    {[p EXCEPT !.hash = Sha256(Garbage)] : p \in MqttPayloads}
       \cup {[p EXCEPT !.iv = "other"] : p \in MqttPayloads}
       \cup {[data |-> Garbage, hash |-> Sha256(Garbage), iv |-> AES_IV]}
       \cup {[data |-> Garbage, hash |-> p.hash, iv |-> AES_IV] : p \in MqttPayloads}

\* the observation of an on_message call that did not reach the detector
NotHandled(message, how) ==
    [received |-> message, on_message |-> how] @@ NoCall

\* the detector as the subscriber process starts it over the model files of
\* an earlier run, nothing received yet
InitSubscriber ==
    /\ Started(AllFiles)
    /\ call = NotHandled([data |-> Garbage, hash |-> Sha256(Garbage), iv |-> ""], "none")

\* on_message(client, userdata, msg) for the payload message
OnMessage(message) ==
    IF ~IntegrityCheck(message)
    THEN /\ call' = NotHandled(message, "hash_mismatch")
         /\ UNCHANGED <<vehicle_states, collected_data, training_progress,
                        isolation_forests, is_model_trained, artifacts, now, found, loaded,
                        train_passes, restarts, delivered, threads, inbox,
                        current_vehicle_index, saved>>
    ELSE IF ~Decrypts(message.data, AES_KEY, message.iv)
    THEN /\ call' = NotHandled(message, "error")
         /\ UNCHANGED <<vehicle_states, collected_data, training_progress,
                        isolation_forests, is_model_trained, artifacts, now, found, loaded,
                        train_passes, restarts, delivered, threads, inbox,
                        current_vehicle_index, saved>>
    ELSE /\ now < MaxMsgs
         /\ \E fan_choice \in {1}, geography \in {"urban"} :
            \E received \in {DecryptData(message.data, AES_KEY, message.iv)} :
            \E can_data \in {IF received.name = "ClimateControl"
                             THEN [received EXCEPT
                                     !.signals = NormalizeClimateControl(@, fan_choice)]
                             ELSE received} :
            \E prediction \in Predictions(can_data), save_ok \in SaveOutcomes(can_data) :
            \E h \in {SaveAnomalyToInfluxdb(
                          Handle(VEHICLE_IDS[current_vehicle_index + 1], can_data,
                                 geography, now + 1, prediction, save_ok), Nat)} :
               /\ Detector(h)
               /\ call' = [received |-> message,
                           on_message |-> IF h.call.outcome = "ok" THEN "handled"
                                          ELSE "error"] @@ h.call
               /\ saved' = IF h.call.outcome = "ok"
                           THEN [csv |-> saved.csv + 1, influxdb |-> saved.influxdb + 1]
                           ELSE saved
               /\ delivered' = Put(delivered,
                                   <<VEHICLE_IDS[current_vehicle_index + 1], can_data.name>>,
                                   can_data.signals)
         /\ current_vehicle_index' = NextVehicleIndex(current_vehicle_index)
         /\ now' = now + 1
         /\ UNCHANGED <<found, loaded, restarts, threads, inbox>>

\* the broker delivers a payload as published
Published == \E message \in MqttPayloads : OnMessage(message)

\* the broker delivers a payload that was changed on the way
Tampered == \E message \in TamperedPayloads : OnMessage(message)

NextSubscriber ==
    \/ Published
    \/ Tampered

SpecSubscriber == InitSubscriber /\ [][NextSubscriber]_vars

----------------------------------------------------------------------------
(* update_vehicle_state statement by statement. The method takes no lock, so *)
(* the statements of calls made by different threads interleave; each action *)
(* below is one statement (or a run of statements on local variables only)   *)
(* of the call of thread t.                                                  *)

\* the snapshot of the k-th call: every call carries different signal values
ConcurrentMessage(k) ==
    [name |-> "VehicleData",
     signals |-> [Speed |-> 10 * k, GearPosition |-> 1, BatteryVoltage |-> 400]]

\* the VehicleState object the local variable state of thread t refers to
StateOf(t) ==
    IF threads[t].attached THEN vehicle_states[threads[t].vehicle_id]
    ELSE threads[t].orphan

\* thread t assigns to a field of its state object: the stored object, or
\* the object it still refers to after another thread replaced the stored one
Mutate(t, new_state, new_thread) ==
    IF threads[t].attached
    THEN /\ vehicle_states' = [vehicle_states EXCEPT ![threads[t].vehicle_id] = new_state]
         /\ threads' = [threads EXCEPT ![t] = new_thread]
    ELSE /\ vehicle_states' = vehicle_states
         /\ threads' = [threads EXCEPT ![t] = [new_thread EXCEPT !.orphan = new_state]]

\* the positions at which a thread holds a reference to its state object
HoldsState == {"geo", "branch", "first", "rules", "store", "time"}

\* current_time = time.time(); message_name = ...; signals = ...
StartCall(t, vehicle_id, geography) ==
    /\ threads[t].pc = "idle"
    /\ now < MaxConcCalls
    /\ now' = now + 1
    /\ threads' = [threads EXCEPT ![t] =
                      [IdleThread EXCEPT !.pc = "check", !.vehicle_id = vehicle_id,
                                         !.message_data = ConcurrentMessage(now + 1),
                                         !.geography = geography,
                                         !.current_time = now + 1]]
    /\ delivered' = Put(delivered, <<vehicle_id, "VehicleData">>,
                        ConcurrentMessage(now + 1).signals)
    /\ UNCHANGED <<vehicle_states, collected_data, training_progress, isolation_forests,
                   is_model_trained, artifacts, found, loaded, train_passes, restarts, call>>

\* a thread calls update_vehicle_state
BeginCall(t) ==
    /\ StartCall(t, "VHC_01", "urban")
    /\ UNCHANGED <<inbox, current_vehicle_index, saved>>

\* if vehicle_id not in self.vehicle_states:
CheckVehicle(t) ==
    /\ threads[t].pc = "check"
    /\ threads' = [threads EXCEPT ![t].pc =
                      IF threads[t].vehicle_id \in DOMAIN vehicle_states
                      THEN "observe" ELSE "create"]
    /\ UNCHANGED <<vehicle_states, collected_data, training_progress, isolation_forests,
                   is_model_trained, artifacts, now, found, loaded, train_passes, restarts,
                   delivered, inbox,
                   current_vehicle_index, saved, call>>

\* self.vehicle_states[vehicle_id] = VehicleState(...): a thread that already
\* refers to the object stored before keeps that object
CreateVehicle(t) ==
    /\ threads[t].pc = "create"
    /\ vehicle_states' = Put(vehicle_states, threads[t].vehicle_id,
                             VehicleState(threads[t].vehicle_id, threads[t].current_time,
                                          EmptyMap, threads[t].geography))
    /\ threads' = [u \in Threads |->
                      IF u = t THEN [threads[t] EXCEPT !.pc = "observe"]
                      ELSE IF /\ threads[u].pc \in HoldsState
                              /\ threads[u].vehicle_id = threads[t].vehicle_id
                              /\ threads[u].attached
                      THEN [threads[u] EXCEPT !.attached = FALSE,
                                              !.orphan = vehicle_states[threads[u].vehicle_id]]
                      ELSE threads[u]]
    /\ UNCHANGED <<collected_data, training_progress, isolation_forests,
                   is_model_trained, artifacts, now, found, loaded, train_passes, restarts,
                   delivered, inbox,
                   current_vehicle_index, saved, call>>

\* self.collected_data[message_name].append(data[0])
Observe(t) ==
    /\ threads[t].pc = "observe"
    /\ \E name \in {threads[t].message_data.name} :
          collected_data' =
              Put(collected_data, name,
                  IF name \in DOMAIN collected_data
                  THEN Append(collected_data[name],
                              PrepareData(name, threads[t].message_data.signals))
                  ELSE <<PrepareData(name, threads[t].message_data.signals)>>)
    /\ threads' = [threads EXCEPT ![t].pc = "train"]
    /\ UNCHANGED <<vehicle_states, training_progress, isolation_forests,
                   is_model_trained, artifacts, now, found, loaded, train_passes, restarts,
                   delivered, inbox,
                   current_vehicle_index, saved, call>>

\* _train_models_if_needed up to "if can_train:"
TrainCheck(t) ==
    /\ threads[t].pc = "train"
    /\ IF is_model_trained
       THEN /\ threads' = [threads EXCEPT ![t].pc = "predict"]
            /\ UNCHANGED <<training_progress, train_passes>>
       ELSE /\ training_progress' =
                 [k \in DOMAIN training_progress |->
                     IF k \in DOMAIN collected_data THEN Len(collected_data[k])
                     ELSE training_progress[k]]
            /\ IF CanTrain(collected_data)
               THEN /\ threads' = [threads EXCEPT ![t].pc = "fit"]
                    /\ train_passes' = train_passes + 1
               ELSE /\ threads' = [threads EXCEPT ![t].pc = "predict"]
                    /\ UNCHANGED train_passes
    /\ UNCHANGED <<vehicle_states, collected_data, isolation_forests,
                   is_model_trained, artifacts, now, found, loaded, restarts,
                   delivered, inbox,
                   current_vehicle_index, saved, call>>

\* self.isolation_forests[message_name].fit(np.array(data)) begins, for the
\* buffers as they are now
FitBegin(t) ==
    /\ threads[t].pc = "fit"
    /\ threads' = [threads EXCEPT ![t].pc = "fitting", ![t].fit_data = collected_data]
    /\ UNCHANGED <<vehicle_states, collected_data, training_progress, isolation_forests,
                   is_model_trained, artifacts, now, found, loaded, train_passes, restarts,
                   delivered, inbox,
                   current_vehicle_index, saved, call>>

\* the fits return
FitEnd(t) ==
    /\ threads[t].pc = "fitting"
    /\ isolation_forests' =
          [k \in MsgTypes |->
              IF k \in DOMAIN threads[t].fit_data THEN Fit(threads[t].fit_data[k])
              ELSE isolation_forests[k]]
    /\ threads' = [threads EXCEPT ![t].pc = "flag"]
    /\ UNCHANGED <<vehicle_states, collected_data, training_progress,
                   is_model_trained, artifacts, now, found, loaded, train_passes, restarts,
                   delivered, inbox,
                   current_vehicle_index, saved, call>>

\* self._save_models(); self.is_model_trained = True
SaveAndFlag(t) ==
    /\ threads[t].pc = "flag"
    /\ artifacts' = SaveModels(isolation_forests, artifacts, MsgTypes)
    /\ is_model_trained' = TRUE
    /\ threads' = [threads EXCEPT ![t].pc = "predict"]
    /\ UNCHANGED <<vehicle_states, collected_data, training_progress, isolation_forests,
                   now, found, loaded, train_passes, restarts, delivered, inbox,
                   current_vehicle_index, saved, call>>

\* some other thread is inside fit() of the model of message_name
FitRunning(t, message_name) ==
    \E u \in Threads \ {t} :
        threads[u].pc = "fitting" /\ message_name \in DOMAIN threads[u].fit_data

\* update_vehicle_state returns, or an exception ends it
Return(t) == IdleThread

\* if self.is_model_trained: prediction = ...predict(data), and the anomaly it
\* saves. predict on a model that another thread is fitting reads estimators
\* that are being replaced: it can return either label or raise
PredictStep(t) ==
    /\ threads[t].pc = "predict"
    /\ \E name \in {threads[t].message_data.name} :
          IF ~is_model_trained
          THEN threads' = [threads EXCEPT ![t].pc = "state"]
          ELSE \E raced \in {FitRunning(t, name)} :
                 \E prediction \in {1, -1},
                    raised \in IF raced THEN {TRUE, FALSE}
                               ELSE {~isolation_forests[name].fitted} :
                     threads' = [threads EXCEPT ![t] =
                        IF raised
                        THEN [Return(t) EXCEPT !.raced = raced, !.outcome = "NotFittedError"]
                        ELSE [@ EXCEPT
                                !.pc = "state", !.raced = raced,
                                !.writes =
                                   IF prediction = -1
                                   THEN <<Anomaly(threads[t].vehicle_id, "isolation_forest",
                                                  name,
                                                  vehicle_states[threads[t].vehicle_id].geography,
                                                  threads[t].message_data.signals)>>
                                   ELSE <<>>]]
    /\ UNCHANGED <<vehicle_states, collected_data, training_progress, isolation_forests,
                   is_model_trained, artifacts, now, found, loaded, train_passes, restarts,
                   delivered, inbox,
                   current_vehicle_index, saved, call>>

\* state = self.vehicle_states[vehicle_id]
GetState(t) ==
    /\ threads[t].pc = "state"
    /\ threads' = [threads EXCEPT ![t].pc = "geo", ![t].attached = TRUE]
    /\ UNCHANGED <<vehicle_states, collected_data, training_progress, isolation_forests,
                   is_model_trained, artifacts, now, found, loaded, train_passes, restarts,
                   delivered, inbox,
                   current_vehicle_index, saved, call>>

\* state.geography = geography
SetGeography(t) ==
    /\ threads[t].pc = "geo"
    /\ Mutate(t, [StateOf(t) EXCEPT !.geography = CurrentGeography(@, threads[t].geography)],
              [threads[t] EXCEPT !.pc = "branch"])
    /\ UNCHANGED <<collected_data, training_progress, isolation_forests,
                   is_model_trained, artifacts, now, found, loaded, train_passes, restarts,
                   delivered, inbox,
                   current_vehicle_index, saved, call>>

\* if message_name not in state.last_values:
Branch(t) ==
    /\ threads[t].pc = "branch"
    /\ threads' = [threads EXCEPT ![t].pc =
                      IF threads[t].message_data.name \in DOMAIN StateOf(t).last_values
                      THEN "rules" ELSE "first"]
    /\ UNCHANGED <<vehicle_states, collected_data, training_progress, isolation_forests,
                   is_model_trained, artifacts, now, found, loaded, train_passes, restarts,
                   delivered, inbox,
                   current_vehicle_index, saved, call>>

\* state.last_values[message_name] = signals of the first-snapshot branch
StoreFirst(t) ==
    /\ threads[t].pc = "first"
    /\ Mutate(t, [StateOf(t) EXCEPT !.last_values =
                      Put(@, threads[t].message_data.name, threads[t].message_data.signals)],
              Return(t))
    /\ UNCHANGED <<collected_data, training_progress, isolation_forests,
                   is_model_trained, artifacts, now, found, loaded, train_passes, restarts,
                   delivered, inbox,
                   current_vehicle_index, saved, call>>

\* the three rule checks against state.last_values[message_name]
Rules(t) ==
    /\ threads[t].pc = "rules"
    /\ \E name \in {threads[t].message_data.name} :
        \E last_signals \in {StateOf(t).last_values[name]} :
        \E rules \in {RunRules(last_signals, StateOf(t).geography, name,
                               threads[t].message_data.signals)} :
          threads' = [threads EXCEPT ![t] =
             IF rules.err # "none" THEN [Return(t) EXCEPT !.outcome = rules.err]
             ELSE [@ EXCEPT !.pc = "store", !.last_signals = last_signals,
                            !.writes = @ \o Anomalies(rules.w, threads[t].vehicle_id, name,
                                                      StateOf(t).geography,
                                                      threads[t].message_data.signals)]]
    /\ UNCHANGED <<vehicle_states, collected_data, training_progress, isolation_forests,
                   is_model_trained, artifacts, now, found, loaded, train_passes, restarts,
                   delivered, inbox,
                   current_vehicle_index, saved, call>>

\* state.last_values[message_name] = signals after the rule checks
Store(t) ==
    /\ threads[t].pc = "store"
    /\ Mutate(t, [StateOf(t) EXCEPT !.last_values =
                      Put(@, threads[t].message_data.name, threads[t].message_data.signals)],
              [threads[t] EXCEPT !.pc = "time",
                                 !.overwrote =
                                    StateOf(t).last_values[threads[t].message_data.name]])
    /\ UNCHANGED <<collected_data, training_progress, isolation_forests,
                   is_model_trained, artifacts, now, found, loaded, train_passes, restarts,
                   delivered, inbox,
                   current_vehicle_index, saved, call>>

\* state.last_update = current_time
UpdateTime(t) ==
    /\ threads[t].pc = "time"
    /\ Mutate(t, [StateOf(t) EXCEPT !.last_update = threads[t].current_time], Return(t))
    /\ UNCHANGED <<collected_data, training_progress, isolation_forests,
                   is_model_trained, artifacts, now, found, loaded, train_passes, restarts,
                   delivered, inbox,
                   current_vehicle_index, saved, call>>

\* the next statement of the call thread t is in
Step(t) ==
    \/ CheckVehicle(t)
    \/ CreateVehicle(t)
    \/ Observe(t)
    \/ TrainCheck(t)
    \/ FitBegin(t)
    \/ FitEnd(t)
    \/ SaveAndFlag(t)
    \/ PredictStep(t)
    \/ GetState(t)
    \/ SetGeography(t)
    \/ Branch(t)
    \/ StoreFirst(t)
    \/ Rules(t)
    \/ Store(t)
    \/ UpdateTime(t)

\* Interleaved calls: two threads call update_vehicle_state for one vehicle on
\* a detector that found no model files.
InitConcurrent ==
    /\ Started(NoFiles)
    /\ call = NoCall

NextConcurrent ==
    \E t \in Threads :
        \/ BeginCall(t)
        \/ Step(t)

SpecConcurrent == InitConcurrent /\ [][NextConcurrent]_vars

\* the thread of client.loop_forever(): it alone runs on_message
LoopThread == "T1"

\* the network loop can call on_message for the oldest waiting message
CanTake == threads[LoopThread].pc = "idle" /\ inbox # <<>>

\* the broker delivers a message of a vehicle; it waits until the loop thread
\* is back from the callback of the message before it
Arrive ==
    /\ now + Len(inbox) < MaxConcCalls
    /\ Len(inbox) < MaxInbox
    /\ \E vehicle_id \in Vehicles : inbox' = Append(inbox, vehicle_id)
    /\ UNCHANGED <<vehicle_states, collected_data, training_progress, isolation_forests,
                   is_model_trained, artifacts, now, found, loaded, train_passes, restarts,
                   delivered, threads,
                   current_vehicle_index, saved, call>>

\* on_message for the oldest waiting message, up to its call of
\* detector.update_vehicle_state
Take ==
    /\ CanTake
    /\ StartCall(LoopThread, Head(inbox), "urban")
    /\ inbox' = Tail(inbox)
    /\ UNCHANGED <<current_vehicle_index, saved>>

\* The subscriber as it runs: one network-loop thread handles the messages of
\* two vehicles one after the other, on a detector that found no model files.
NextLoop ==
    \/ Arrive
    \/ Take
    \/ Step(LoopThread)

SpecLoop == InitConcurrent /\ [][NextLoop]_vars

----------------------------------------------------------------------------
(* Properties *)

\* the anomaly types the last call wrote to the sink
Written == {call.writes[i].anomaly_type : i \in 1..Len(call.writes)}

\* the last call ran a training pass
Trained == call.fits # {}

BufferLen(t) == IF t \in DOMAIN collected_data THEN Len(collected_data[t]) ELSE 0

\* C1: the training pass fires only when each of the three message types has at
\* least min_samples_for_training vectors in its buffer, a type never observed
\* counting as an empty buffer.
C1_TrainingNeedsEveryBuffer ==
    Trained => \A t \in MsgTypes : BufferLen(t) >= MinSamples

\* C2: whenever is_model_trained is true every per-type model is fitted, and
\* predict is never invoked on an unfitted model.
C2_TrainedMeansAllFitted ==
    /\ is_model_trained => \A t \in MsgTypes : isolation_forests[t].fitted
    /\ \A i \in 1..Len(call.predicts) : call.predicts[i].fitted

TemporalTypes == {"sudden_speed_change", "sudden_temperature_change"}

\* C3: the first message of a type handled for a vehicle is recorded in
\* last_values and produces no temporal-delta anomaly; the temporal check only
\* runs when last_values already held a snapshot of that type.
C3_FirstMessageRecordedNotDiffed ==
    /\ (call.outcome # "none" /\ ~call.had_previous) =>
          /\ Written \cap TemporalTypes = {}
          /\ "temporal" \notin call.families
          /\ call.name \in DOMAIN vehicle_states[call.vehicle_id].last_values
          /\ vehicle_states[call.vehicle_id].last_values[call.name] = call.signals
    /\ "temporal" \in call.families => call.had_previous

\* the members of a sequence
Range(seq) == {seq[i] : i \in 1..Len(seq)}

\* C4: the first message of a type for a vehicle still gets the geography rules
\* (b) and the signal rules (c): the sink receives every anomaly the geography
\* rules give for it (e.g. high_speed_in_rain for a first VehicleData message
\* with Speed > 70 in rainy geography) and every diagnostic of the signal rules
\* is printed.
C4_FirstMessageGetsGeographyRules ==
    (call.outcome = "ok" /\ ~call.had_previous) =>
        /\ Range(CheckGeographyBasedAnomalies(call.geography, call.name,
                                              call.signals).w) \subseteq Written
        /\ Range(CheckSignalBasedAnomalies(call.signals, call.name).d)
              \subseteq Range(call.diags)

\* the table of section 4.2(b): geography, message type, signal, comparison,
\* threshold, anomaly type
GeographyTable ==
    {<<"rainy", "VehicleData", "Speed", ">", 70, "high_speed_in_rain">>,
     <<"mountainous", "EngineData", "EngineTemp", ">", 95, "high_temperature_in_mountainous">>,
     <<"mountainous", "VehicleData", "Speed", ">", 70, "high_speed_in_mountainous">>,
     <<"hot", "EngineData", "EngineTemp", ">", 100, "high_temperature_in_hot">>,
     <<"hot", "ClimateControl", "CabinTemp", ">", 28, "high_cabin_temperature">>,
     <<"hot", "ClimateControl", "ACStatus", "=", 0, "ac_off_in_hot">>,
     <<"snowy", "VehicleData", "Speed", ">", 50, "high_speed_in_snow">>,
     <<"snowy", "ClimateControl", "CabinTemp", "<", 18, "low_cabin_temperature">>,
     <<"urban", "VehicleData", "Speed", ">", 60, "high_speed_in_urban">>,
     <<"urban", "EngineData", "EngineSpeed", ">", 4000, "high_engine_speed">>,
     <<"highway", "VehicleData", "Speed", "<", 60, "low_speed_in_highway">>}

RowHolds(row, signals) ==
    CASE row[4] = ">" -> signals[row[3]] > row[5]
      [] row[4] = "<" -> signals[row[3]] < row[5]
      [] row[4] = "=" -> signals[row[3]] = row[5]

TableTypes(geography, message_name, signals) ==
    {row[6] : row \in {r \in GeographyTable :
                          /\ r[1] = geography
                          /\ r[2] = message_name
                          /\ RowHolds(r, signals)}}

GeographyTypes(geography) == {row[6] : row \in {r \in GeographyTable : r[1] = geography}}

AllGeographyTypes == UNION {GeographyTypes(g) : g \in Geography}

\* C6: the geography anomalies written by one call all belong to the branch of the
\* geography supplied with that call's message, whatever geography the vehicle had
\* before.
C6_SingleGeographyBranch ==
    call.outcome # "none" =>
        (Written \cap AllGeographyTypes) \subseteq GeographyTypes(call.geography)

C6_Witness ==
    /\ call.outcome = "ok"
    /\ call.previous_geography = "snowy"
    /\ call.geography = "urban"
    /\ "high_speed_in_urban" \in Written

\* C7: in a run started without model files, predict is only invoked while
\* is_model_trained is true, and never while every type's sample buffer is
\* shorter than min_samples_for_training.
C7_NoPredictBeforeTraining ==
    (found = {} /\ call.predicts # <<>>) =>
        /\ is_model_trained
        /\ \E t \in MsgTypes : BufferLen(t) >= MinSamples

C7_Witness ==
    /\ found = {}
    /\ call.predicts # <<>>
    /\ call.outcome = "ok"

\* C8: in a run started without model files the training pass executes at most
\* once, is_model_trained never goes back to false, and after a pass without a
\* write error an artifact exists for each of the three message types.
C8_TrainsOnceAndSaves ==
    /\ [](found = {} =>
            /\ train_passes <= 1
            /\ (Trained /\ call.saves = MsgTypes) =>
                  \A t \in MsgTypes : Exists(artifacts, t))
    /\ [][(found = {} /\ is_model_trained) => is_model_trained']_vars

C8_Witness ==
    /\ found = {}
    /\ train_passes = 1
    /\ is_model_trained
    /\ call.fits = MsgTypes
    /\ call.saves = MsgTypes
    /\ \A t \in MsgTypes : Exists(artifacts, t) /\ artifacts[t].model.fitted

\* C9: a call made while is_model_trained is true changes no model: nothing is
\* fitted and no artifact is written.
C9_FrozenAfterTraining ==
    [][is_model_trained =>
          /\ isolation_forests' = isolation_forests
          /\ artifacts' = artifacts
          /\ call'.fits = {}
          /\ call'.saves = {}]_vars

C9_Witness ==
    /\ call.trained_before
    /\ call.outcome = "ok"
    /\ train_passes = 1
    /\ call.predicts # <<>>

\* C10: a model loaded from its artifact at startup is never fitted again and
\* its artifact is never written again by a training pass of that process.
C10_LoadedModelsStayAsLoaded ==
    \A t \in loaded : t \notin call.fits /\ t \notin call.saves

\* C11: when loading an existing artifact fails at startup the process still
\* starts, and until the fresh model of that type has been fitted on collected
\* samples the manager is not trained and predict is not invoked for that type.
C11_LoadFailureReentersCollecting ==
    \A t \in found \ loaded :
        ~isolation_forests[t].fitted =>
            /\ ~is_model_trained
            /\ \A i \in 1..Len(call.predicts) : call.predicts[i].type # t

\* C12: when the dump of one message type's model fails during the training
\* pass, the call is not ended by that error, the models of the other types are
\* still written, is_model_trained becomes true, and that call and the calls
\* after it invoke predict.
C12_SaveFailureIsLocal ==
    /\ []((Trained /\ call.saves # MsgTypes) =>
            /\ is_model_trained
            /\ \A t \in call.saves : artifacts[t] = File(isolation_forests[t])
            /\ Len(call.predicts) = 1
            /\ call.outcome = IF call.predicts[1].fitted THEN "ok" ELSE "NotFittedError")
    /\ [][(train_passes = 1 /\ is_model_trained) => Len(call'.predicts) = 1]_vars

C12_Witness ==
    /\ Trained
    /\ call.saves = {"EngineData", "ClimateControl"}
    /\ ~Exists(artifacts, "VehicleData")
    /\ Exists(artifacts, "ClimateControl")
    /\ is_model_trained
    /\ call.outcome = "ok"

\* the anomaly types the last call passed to _save_anomaly_to_influxdb
Attempted == {call.attempts[i].anomaly_type : i \in 1..Len(call.attempts)}

\* a write of the last call failed in the sink
SinkFailed == Len(call.writes) < Len(call.attempts)

AllFamilies == {"temporal", "geography", "signal"}

\* C13: when a write to the sink fails, the call still returns normally: the
\* rule checks after the failed write run, last_values, geography and
\* last_update are updated as after a successful write, the failed anomaly is
\* passed to the sink once only, and the next message is handled normally.
C13_SinkFailureIsDropped ==
    /\ [](SinkFailed =>
            /\ call.outcome = "ok"
            /\ vehicle_states[call.vehicle_id].last_values[call.name] = call.signals
            /\ vehicle_states[call.vehicle_id].geography = call.geography
            /\ call.had_previous =>
                  /\ call.families = AllFamilies
                  /\ vehicle_states[call.vehicle_id].last_update = call.time
                  /\ Range(CheckGeographyBasedAnomalies(call.geography, call.name,
                                                        call.signals).w) \subseteq Attempted
                  /\ Range(CheckSignalBasedAnomalies(call.signals, call.name).d)
                        \subseteq Range(call.diags)
            /\ Len(call.attempts) = Cardinality(Attempted)
            /\ Range(call.writes) \subseteq Range(call.attempts))
    /\ [][SinkFailed =>
            /\ call'.outcome = "ok"
            /\ vehicle_states'[call'.vehicle_id].last_values[call'.name] = call'.signals
            /\ call'.had_previous => call'.families = AllFamilies]_vars

C13_Witness ==
    /\ call.had_previous
    /\ call.geography = "hot"
    /\ call.name = "ClimateControl"
    /\ "high_cabin_temperature" \in Attempted \ Written
    /\ "ac_off_in_hot" \in Written
    /\ "cabin_temp_delta" \in Range(call.diags)
    /\ vehicle_states[call.vehicle_id].last_update = call.time
    /\ call.outcome = "ok"

\* C14: a call whose message name is none of EngineData, VehicleData and
\* ClimateControl ends with an error and leaves the state store as it was: no
\* VehicleState is created, no vehicle's geography changes and no last_values
\* entry exists under the unknown name.
C14_UnknownNameRejected ==
    [][(call'.outcome # "none" /\ call'.name \notin MsgTypes) =>
          /\ call'.outcome # "ok"
          /\ DOMAIN vehicle_states' = DOMAIN vehicle_states
          /\ \A v \in DOMAIN vehicle_states :
                vehicle_states'[v].geography = vehicle_states[v].geography
          /\ \A v \in DOMAIN vehicle_states' :
                call'.name \notin DOMAIN vehicle_states'[v].last_values]_vars

\* the signals of its message type that the last call's snapshot lacks
Missing == Range(Features(call.name)) \ DOMAIN call.signals

\* C15: a call whose snapshot lacks a signal of its message type returns
\* normally, with or without a previous snapshot: the row buffered for the model
\* has 0 for the missing signal, no geography anomaly on the missing signal is
\* written, and the snapshot is recorded in last_values.
C15_MissingSignalTolerated ==
    (call.outcome # "none" /\ call.name \in MsgTypes /\ Missing # {}) =>
        /\ call.outcome = "ok"
        /\ \A i \in 1..Len(Features(call.name)) :
              Features(call.name)[i] \in Missing =>
                  collected_data[call.name][Len(collected_data[call.name])][i] = 0
        /\ \A row \in GeographyTable : row[6] \in Written => row[3] \notin Missing
        /\ vehicle_states[call.vehicle_id].last_values[call.name] = call.signals

\* C16: for a message whose type already has a previous snapshot, the rule
\* families are evaluated even when _check_isolation_forest_anomalies raised for
\* that message, and when they all ran the snapshot is recorded in last_values.
C16_RulesRunWhenModelFails ==
    (call.had_previous /\ call.model_outcome # "none") =>
        /\ "temporal" \in call.families
        /\ call.families = AllFamilies =>
              vehicle_states[call.vehicle_id].last_values[call.name] = call.signals

\* C17: after every call update_vehicle_state(v, message, g) that returns, the
\* state of v has geography g and last_values[message.name] = message.signals,
\* and when a previous snapshot of that type existed last_update is the time of
\* this call.
C17_ReturnedCallIsRecorded ==
    call.outcome = "ok" =>
        /\ vehicle_states[call.vehicle_id].geography = call.geography
        /\ vehicle_states[call.vehicle_id].last_values[call.name] = call.signals
        /\ call.had_previous => vehicle_states[call.vehicle_id].last_update = call.time

C17_Witness ==
    /\ call.outcome = "ok"
    /\ call.had_previous
    /\ call.compared # call.signals
    /\ call.previous_geography # call.geography
    /\ call.time = 2
    /\ vehicle_states[call.vehicle_id] =
          VehicleState(call.vehicle_id, 2, Put(EmptyMap, call.name, call.signals),
                       call.geography)

\* C18: whenever the temporal rules are evaluated for a message of type t of
\* vehicle v, the snapshot they diff against is that of the latest earlier
\* message of type t passed to the detector for v, not one of another vehicle,
\* another type or an older message of that type.
C18_DiffsAgainstLatestDelivered ==
    []["temporal" \in call'.families =>
          /\ <<call'.vehicle_id, call'.name>> \in DOMAIN delivered
          /\ call'.compared = delivered[<<call'.vehicle_id, call'.name>>]]_vars

\* C19: every anomaly passed to the sink during update_vehicle_state(v,
\* message, g), by the rules or by the isolation forest, carries vehicle_id v,
\* message type message.name, severity "warning" and the geography g of that
\* call, whatever geography the earlier messages of v had.
C19_AnomalyCarriesCallContext ==
    \A i \in 1..Len(call.attempts) :
        /\ call.attempts[i].vehicle_id = call.vehicle_id
        /\ call.attempts[i].message_type = call.name
        /\ call.attempts[i].severity = "warning"
        /\ call.attempts[i].geography = call.geography

\* the fields of the VehicleState dataclass
VehicleStateFields == {"vehicle_id", "last_update", "last_values", "geography"}

\* C20: no call passes an anomaly_type to the sink twice, whether the write
\* succeeds or fails; in a call that returns, the anomalies passed to the sink
\* are one per rule that triggered; after the call the detector's own state
\* (vehicle states and sample buffers) holds snapshots and feature rows only,
\* no anomaly record.
C20_OneAttemptPerTrigger ==
    /\ Len(call.attempts) = Cardinality(Attempted)
    /\ call.outcome = "ok" =>
        /\ Attempted \ {"isolation_forest"} =
              IF call.had_previous
              THEN Range(CheckTemporalAnomalies(call.compared, call.name, call.signals).w)
                     \cup Range(CheckGeographyBasedAnomalies(call.geography, call.name,
                                                           call.signals).w)
              ELSE {}
        /\ \A v \in DOMAIN vehicle_states :
              /\ DOMAIN vehicle_states[v] = VehicleStateFields
              /\ \A t \in DOMAIN vehicle_states[v].last_values :
                    "anomaly_type" \notin DOMAIN vehicle_states[v].last_values[t]
        /\ \A t \in DOMAIN collected_data :
              \A i \in 1..Len(collected_data[t]) : collected_data[t][i] \in Seq(Int)

C20_Witness ==
    /\ call.outcome = "ok"
    /\ Attempted = {"isolation_forest", "high_cabin_temperature", "ac_off_in_hot"}
    /\ Len(call.attempts) = 3
    /\ Written = {"high_cabin_temperature"}

\* the anomaly types of the model, of the two temporal rules and of the eleven
\* geography rules
SinkTypes == {"isolation_forest"} \cup TemporalTypes \cup AllGeographyTypes

\* what the checks that only print report
DiagnosticTags ==
    {"gear_jump", "engine_speed_delta", "battery_drop", "cabin_temp_delta",
     "critical_engine_temp", "critical_battery", "low_battery",
     "gear_mismatch", "critical_gear_mismatch",
     "low_cabin_temp", "heating_advice", "critical_high_cabin_temp", "cooling_advice"}

\* C21: only the model anomaly, sudden_speed_change, sudden_temperature_change
\* and the eleven geography rules are ever passed to the sink; the checks that
\* only print (gear jump, engine-speed delta, battery drop, cabin-temperature
\* delta and the signal rules) never cause a sink write.
C21_DiagnosticsNeverReachSink ==
    /\ Cardinality(AllGeographyTypes) = 11
    /\ Attempted \subseteq SinkTypes
    /\ Attempted \cap DiagnosticTags = {}
    /\ Range(call.diags) \subseteq DiagnosticTags
    /\ Len(call.writes) = Len(call.attempts)

C21_Witness ==
    /\ call.outcome = "ok"
    /\ call.name = "EngineData"
    /\ {"engine_speed_delta", "battery_drop", "critical_battery"} \subseteq Range(call.diags)
    /\ Attempted = {"sudden_temperature_change"}

\* the steps of the expected gear: above row[1] and up to row[2] the gear is row[3]
GearSteps ==
    {<<-1, 20, 1>>, <<20, 40, 2>>, <<40, 70, 3>>, <<70, 100, 4>>, <<100, 150, 5>>}

GearOfSteps(speed) ==
    IF speed > 150 THEN 6
    ELSE CHOOSE g \in Gears :
            \E row \in GearSteps : row[3] = g /\ row[1] < speed /\ speed <= row[2]

\* C22: _get_expected_gear is a non-decreasing step function of speed with
\* values in 1..6: 1 on [0,20], 2 on (20,40], 3 on (40,70], 4 on (70,100], 5 on
\* (100,150] and 6 above 150, and get_appropriate_gear of both publishers
\* returns the same gear for every speed.
C22_ExpectedGearSteps ==
    call.outcome = "ok" =>
        /\ call.expected_gear \in Gears
        /\ call.expected_gear = GearOfSteps(call.signals.Speed)
        /\ \A slower \in 0..call.signals.Speed :
              GetExpectedGear(slower) <= call.expected_gear
        /\ call.appropriate_gear = <<call.expected_gear, call.expected_gear>>

C22_Witness ==
    /\ call.outcome = "ok"
    /\ call.signals.Speed = 150
    /\ call.expected_gear = 5
    /\ call.appropriate_gear = <<5, 5>>

\* C23: for a VehicleData snapshot of any speed >= 0 the signal check reports a
\* gear mismatch exactly when the expected and the actual gear differ by more
\* than 1, and a critical mismatch exactly when speed > 100 with gear <= 2 or
\* speed < 20 with gear >= 3 (speed 0 with gear 3 is critical; no speed in
\* 20..100 is).
C23_GearMismatchExactly ==
    call.outcome = "ok" =>
        /\ "gear_mismatch" \in Range(call.diags)
              <=> Abs(GetExpectedGear(call.signals.Speed) - call.signals.GearPosition) > 1
        /\ "critical_gear_mismatch" \in Range(call.diags)
              <=> \/ call.signals.Speed > 100 /\ call.signals.GearPosition <= 2
                  \/ call.signals.Speed < 20 /\ call.signals.GearPosition >= 3

\* the temporal rules write what the claim says for a message with a previous snapshot
TemporalThresholds ==
    (call.outcome = "ok" /\ call.had_previous) =>
        /\ call.name = "VehicleData" =>
              ("sudden_speed_change" \in Written
                 <=> Abs(call.signals.Speed - call.compared.Speed) > 20)
        /\ call.name = "EngineData" =>
              ("sudden_temperature_change" \in Written
                 <=> Abs(call.signals.EngineTemp - call.compared.EngineTemp) > 15)

\* the second message of the V1 scenario writes both anomalies
ScenarioSecondMessage ==
    (call.outcome = "ok" /\ call.had_previous /\ call.name = "VehicleData"
       /\ call.geography = "rainy"
       /\ call.compared.Speed = 30 /\ call.signals.Speed = 90) =>
        {"sudden_speed_change", "high_speed_in_rain"} \subseteq Written

\* C24: with a previous snapshot of the type, a VehicleData message writes
\* sudden_speed_change exactly when |Speed - previous Speed| > 20 and an
\* EngineData message writes sudden_temperature_change exactly when
\* |EngineTemp - previous EngineTemp| > 15, a difference equal to the threshold
\* writing nothing; in the V1 scenario (Speed 30, then Speed 90, in rainy
\* geography) the first message writes nothing and the second writes both
\* sudden_speed_change and high_speed_in_rain.
C24_TemporalThresholds ==
    /\ TemporalThresholds
    /\ (call.outcome = "ok" /\ ~call.had_previous) => call.writes = <<>>
    /\ ScenarioSecondMessage

\* C24 as amended: the same, except that the first message writes no
\* rule-based anomaly; when the models are already trained it can still write
\* the isolation_forest anomaly of the model step.
C24_Amended ==
    /\ TemporalThresholds
    /\ (call.outcome = "ok" /\ ~call.had_previous) => Written \subseteq {"isolation_forest"}
    /\ ScenarioSecondMessage

C24_Witness ==
    /\ call.outcome = "ok"
    /\ call.had_previous
    /\ call.geography = "rainy"
    /\ call.compared.Speed = 30
    /\ call.signals.Speed = 90
    /\ Written = {"sudden_speed_change", "high_speed_in_rain"}

\* C25: every update_vehicle_state call for a ClimateControl message with
\* CabinTemp > 28 and ACStatus = 0 in hot geography writes both
\* high_cabin_temperature and ac_off_in_hot during that call.
C25_HotCabinWritesBoth ==
    (call.outcome # "none" /\ call.name = "ClimateControl" /\ call.geography = "hot"
       /\ call.signals.CabinTemp > 28 /\ call.signals.ACStatus = 0) =>
        {"high_cabin_temperature", "ac_off_in_hot"} \subseteq Written

\* the vehicles a message has been passed to the detector for
DeliveredVehicles == {key[1] : key \in DOMAIN delivered}

CallSnapshots == {ConcurrentMessage(k).signals : k \in 1..now}

\* every call made so far has returned
AllReturned == \A t \in Threads : threads[t].pc = "idle"

\* C26: when the interleaved calls for one vehicle and one message type have
\* all returned, the stored last_values entry of that type is the snapshot of
\* one of the calls, and no step ever lowers the stored last_update.
C26_OneSnapshotAndMonotoneTime ==
    /\ [](AllReturned /\ now > 0
            => /\ "VHC_01" \in DOMAIN vehicle_states
               /\ "VehicleData" \in DOMAIN vehicle_states["VHC_01"].last_values
               /\ vehicle_states["VHC_01"].last_values["VehicleData"] \in CallSnapshots)
    /\ [][\A v \in DOMAIN vehicle_states :
              vehicle_states'[v].last_update >= vehicle_states[v].last_update]_vars

\* the calls that have read their comparand and not yet returned
Comparing == {t \in Threads : threads[t].pc \in {"store", "time"}}

\* C27: interleaved calls for one vehicle behave as if serialized: no two
\* calls in progress compare against the same previous snapshot, the snapshot
\* a call replaces is the one it compared against, and every call in progress
\* works on the one VehicleState the store holds for the vehicle.
C27_CallsSerializedPerVehicle ==
    /\ \A t, u \in Comparing :
          (t # u /\ threads[t].vehicle_id = threads[u].vehicle_id)
             => threads[t].last_signals # threads[u].last_signals
    /\ \A t \in Threads :
          threads[t].pc = "time" => threads[t].overwrote = threads[t].last_signals
    /\ \A t \in Threads : threads[t].attached

\* C28: at most one training pass ever starts, and no predict runs on a model
\* while a fit of that model is in progress.
C28_TrainingIsAtomic ==
    /\ train_passes <= 1
    /\ \A t \in Threads : ~threads[t].raced

\* the vehicles whose message is being handled inside a fit of the models
FittingFor == {threads[t].vehicle_id : t \in {u \in Threads : threads[u].pc = "fitting"}}

\* C29: while the fit of the models is in progress, a waiting message of
\* another vehicle can be taken up by a handler at once: ingestion does not
\* wait for the fit to end.
C29_FitOffIngestionPath ==
    (FittingFor # {} /\ inbox # <<>> /\ Head(inbox) \notin FittingFor) => CanTake

\* C34: once is_model_trained is true, handling a message leaves the sample
\* buffer of every message type as it was.
C34_BuffersFrozenOnceTrained ==
    [][is_model_trained => collected_data' = collected_data]_vars

\* C35: a call of update_vehicle_state that ends with an error leaves the
\* detector state as it was before the call: the same VehicleState objects
\* with the same geography, last_values and last_update, and the same sample
\* buffers.
C35_ErrorLeavesStateUnchanged ==
    [][(now' = now + 1 /\ call'.outcome \notin {"ok", "none"}) =>
          /\ vehicle_states' = vehicle_states
          /\ collected_data' = collected_data]_vars

\* C36: every model file on disk holds a fitted model, and a process started
\* again over three model files has three fitted models.
C36_ArtifactsHoldFittedModels ==
    /\ \A t \in MsgTypes : Exists(artifacts, t) => artifacts[t].model.fitted
    /\ (restarts > 0 /\ is_model_trained) =>
          \A t \in MsgTypes : isolation_forests[t].fitted

\* C37: after a call that returned, the vehicle's last_update is the time of
\* that call, whatever the message type, and no call lowers a vehicle's
\* last_update.
C37_LastUpdateIsLatestMessage ==
    /\ [](call.outcome = "ok" =>
            vehicle_states[call.vehicle_id].last_update = call.time)
    /\ [][\A v \in DOMAIN vehicle_states :
              v \in DOMAIN vehicle_states'
                 => vehicle_states'[v].last_update >= vehicle_states[v].last_update]_vars

\* C38: for a VehicleData snapshot with speed > 0 the critical gear mismatch
\* is only reported together with the ordinary one, because its condition
\* implies a difference of more than one gear from the expected gear; for an
\* EngineData snapshot at most one of the critical and the low battery
\* diagnostics is reported.
C38_CriticalImpliesOrdinary ==
    call.outcome = "ok" =>
        /\ call.name = "VehicleData" =>
              /\ "critical_gear_mismatch" \in Range(call.diags)
                    => "gear_mismatch" \in Range(call.diags)
              /\ (/\ call.signals.Speed > 0
                  /\ \/ call.signals.Speed > 100 /\ call.signals.GearPosition <= 2
                     \/ call.signals.Speed < 20 /\ call.signals.GearPosition >= 3)
                    => Abs(GetExpectedGear(call.signals.Speed)
                             - call.signals.GearPosition) > 1
        /\ call.name = "EngineData" =>
              ~({"critical_battery", "low_battery"} \subseteq Range(call.diags))

C38_Witness ==
    /\ call.outcome = "ok"
    /\ call.signals = [Speed |-> 19, GearPosition |-> 3, BatteryVoltage |-> 400]
    /\ call.diags = <<"gear_mismatch", "critical_gear_mismatch">>

\* C40: for ACStatus in {0,1} and FanSpeed in 0..5 the snapshot a subscriber
\* hands to the detector never has the AC off with the fan running; the
\* snapshot of the subscriber with the InfluxDB sink never has the AC on with
\* the fan off either, so the detector's explanation for that case cannot
\* apply to it.
C40_ClimateNormalized ==
    call.outcome = "ok" =>
        /\ ~(call.handed.ACStatus = 0 /\ call.handed.FanSpeed > 0)
        /\ call.variant = "db" =>
              /\ ~(call.handed.ACStatus = 1 /\ call.handed.FanSpeed = 0)
              /\ ~ExplainsACWithoutFan(call.handed)

C40_Witness ==
    /\ call.outcome = "ok"
    /\ call.variant = "db"
    /\ call.signals.ACStatus = 1 /\ call.signals.FanSpeed = 0
    /\ call.handed.ACStatus = 1 /\ call.handed.FanSpeed = 3

\* the detector, the stores and the round-robin position are as before the step
NothingHandled ==
    /\ UNCHANGED <<vehicle_states, collected_data, training_progress, isolation_forests,
                   is_model_trained, artifacts, now, train_passes, delivered, saved>>
    /\ current_vehicle_index' = current_vehicle_index
    /\ call'.outcome = "none"

\* the message of the step is attributed to the vehicle the index pointed at,
\* and the index moves on by one, modulo the five vehicles
AttributedInTurn ==
    /\ call'.vehicle_id = VEHICLE_IDS[current_vehicle_index + 1]
    /\ now' = now + 1
    /\ current_vehicle_index' = (current_vehicle_index + 1) % 5

\* C39: a received payload whose SHA-256 digest does not match its data is
\* dropped: the detector is not called and neither the vehicle states, the
\* sample buffers, the stores nor the round-robin index change. Every payload
\* that passes the digest comparison is attributed to
\* VEHICLE_IDS[current_vehicle_index] and advances the index by one modulo 5;
\* the index stays in 0..4.
C39_HashGateAndRoundRobin ==
    /\ [](current_vehicle_index \in 0..4)
    /\ [][IF Sha256(call'.received.data) # call'.received.hash
          THEN NothingHandled
          ELSE AttributedInTurn]_vars

\* C39 as amended: the same for a digest mismatch; a payload that passes the
\* digest comparison is attributed in turn when it decrypts to a CAN message
\* under the subscriber's key and the iv it carries, and is dropped like a
\* mismatch, without advancing the index, when it does not.
C39_Amended ==
    /\ [](current_vehicle_index \in 0..4)
    /\ [][IF Sha256(call'.received.data) # call'.received.hash
          THEN NothingHandled
          ELSE IF Decrypts(call'.received.data, AES_KEY, call'.received.iv)
          THEN AttributedInTurn
          ELSE NothingHandled /\ call'.on_message = "error"]_vars

\* the fifth published payload was handled for VHC_05, stored, and the index
\* is back at 0
C39_Witness ==
    /\ call.on_message = "handled"
    /\ call.vehicle_id = "VHC_05"
    /\ current_vehicle_index = 0
    /\ saved.csv = 5

\* the isolation_forest anomalies the last call passed to the sink
ModelAnomalies ==
    {i \in 1..Len(call.writes) : call.writes[i].anomaly_type = "isolation_forest"}

\* C33: a call made while the models count as trained runs predict exactly
\* once, on the model of the message's type and on the row projected from the
\* message's own signals, and writes one isolation_forest anomaly when the
\* result is -1 and none otherwise; the call whose sample triggers the training
\* pass runs predict as well, on the model just fitted.
C33_PredictOncePerMessage ==
    /\ (call.outcome # "none" /\ is_model_trained) =>
          /\ Len(call.predicts) = 1
          /\ call.predicts[1].type = call.name
          /\ call.predicts[1].row =
                 [i \in 1..3 |-> call.signals[Features(call.name)[i]]]
          /\ Cardinality(ModelAnomalies) = IF call.predicts[1].result = -1 THEN 1 ELSE 0
    /\ call.fits # {} =>
          /\ Len(call.predicts) = 1
          /\ call.predicts[1].fitted
          /\ call.predicts[1].result \in {1, -1}

\* the call that triggered the training pass was predicted on and flagged
C33_Witness ==
    /\ call.fits # {}
    /\ ~call.trained_before
    /\ call.predicts[1].result = -1
    /\ Cardinality(ModelAnomalies) = 1

\* predict is a function of the fitted estimators, which fit builds from the
\* training rows with random_state=42, and of the vector: two models classify
\* every vector alike when both are unfitted (predict raises) or both were
\* fitted on the same rows
SameClassification(a, b) == a.fitted = b.fitted /\ (a.fitted => a.rows = b.rows)

C31_EventuallyTrainedAndPredicting ==
    /\ <>[]is_model_trained
    /\ [][(now' = now + 1 /\ is_model_trained') =>
            /\ Len(call'.predicts) = 1
            /\ call'.predicts[1].result \in {1, -1}]_vars
====
